---------------------------- MODULE Spec2Model ----------------------------
(***************************************************************************)
(* Model of the redlining engine of api/app/services/ai_redlining.py:      *)
(* AIRedliningService.apply_accepted_changes (the review path) and         *)
(* DocumentProcessor._apply_modifications / _apply_modifications_chunked   *)
(* (the batch path), over a python-docx document, and of                   *)
(* AIRedliningService.analyze_document, which validates and completes the  *)
(* planner's list of modifications, or stands in for the planner in mock   *)
(* mode; and of the document routes of api/app/routes/documents.py and     *)
(* api/app/routes/changes.py over the document table.                      *)
(*                                                                         *)
(* A text is a sequence of one-character strings.  A paragraph is a        *)
(* sequence of elements: a run (kind "run") carries text and character     *)
(* formatting; "del" and "ins" are the w:del / w:ins elements that         *)
(* _add_track_change_deletion / _add_track_change_insertion put in place   *)
(* of a run.  As in python-docx, paragraph.text and paragraph.runs see     *)
(* only the runs that are direct children of the paragraph.                *)
(***************************************************************************)
EXTENDS Integers, Sequences, FiniteSets, TLC

VARIABLES
    engine,     \* which entry point runs: "review", "batch", "chunked", "accepted", "analyze"
    doc0,       \* the document file at doc_path (never written: output goes elsewhere)
    doc,        \* the loaded DocxDocument: doc.paragraphs, the body paragraphs
    cells,      \* the paragraphs inside the cells of doc.tables, in document order
    mods,       \* accepted_changes / modifications: the input list
    idx,        \* number of list entries the loop has consumed
    prevDoc,    \* doc as it was before the latest loop iteration
    prevCells,  \* cells as they were before the latest loop iteration
    outcomes,   \* per consumed entry: "applied", "notfound", "empty", "ignored", "error"
    native,     \* whether OxmlElement tracked-change markup succeeds (else visual fallback)
    sig,        \* whether a signature image was supplied (read after the loop)
    applied,    \* changes_actually_applied
    phase,      \* "apply" while the loop runs, "done" once the entry point returned
    result,     \* the dict the entry point returns
    document_text,  \* analyze_document: the text of the document under analysis
    custom_rules,   \* analyze_document: the rules, each with a name and an instruction
    firm_details,   \* analyze_document: the dict the caller passed (None: no dict)
    ai_response,    \* the "modifications" array of the JSON the planner answered with
    flagged,        \* the planner entries analyze_document has decided to remove
    documents,      \* routes: the document table, by document id
    files,          \* routes: the paths that exist on disk
    request,        \* routes: the process_document call that has committed 'processing'
    response        \* routes: the latest response sent, with what the route found

vars == <<engine, doc0, doc, cells, mods, idx, prevDoc, prevCells, outcomes, native, sig,
          applied, phase, result, document_text, custom_rules, firm_details,
          ai_response, flagged, documents, files, request, response>>

\* what only the routes read and write
routes == <<documents, files, request, response>>

\* what only analyze_document reads and writes
analysis == <<document_text, custom_rules, firm_details, ai_response, flagged>>

(***************************************************************************)
(* Python str operations                                                   *)
(***************************************************************************)

UpperLetters == <<"A","B","C","D","E","F","G","H","I","J","K","L","M","N","O","P","Q","R","S","T","U","V","W","X","Y","Z">>
LowerLetters == <<"a","b","c","d","e","f","g","h","i","j","k","l","m","n","o","p","q","r","s","t","u","v","w","x","y","z">>

IsSpace(c) == c \in {" ", "\t", "\n"}

LowerChar(c) ==
    IF c \in {"A","B","C","D","E","F","G","H","I","J","K","L","M",
              "N","O","P","Q","R","S","T","U","V","W","X","Y","Z"}
    THEN LowerLetters[CHOOSE i \in 1..Len(UpperLetters) : UpperLetters[i] = c]
    ELSE c

UpperChar(c) ==
    IF \E i \in 1..Len(LowerLetters) : LowerLetters[i] = c
    THEN UpperLetters[CHOOSE i \in 1..Len(LowerLetters) : LowerLetters[i] = c]
    ELSE c

\* str.lower(), str.upper()
Lower(s) == [i \in 1..Len(s) |-> LowerChar(s[i])]
Upper(s) == [i \in 1..Len(s) |-> UpperChar(s[i])]

\* t occurs in s starting at (1-based) position i
OccursAt(s, t, i) ==
    /\ i >= 1
    /\ i + Len(t) - 1 <= Len(s)
    /\ \A k \in 1..Len(t) : s[i + k - 1] = t[k]

\* str.find, 1-based; 0 when absent (the empty string is found at position 1)
Find(s, t) ==
    IF \E i \in 1..(Len(s) + 1) : OccursAt(s, t, i)
    THEN CHOOSE i \in 1..(Len(s) + 1) :
            /\ OccursAt(s, t, i)
            /\ \A j \in 1..(i - 1) : ~OccursAt(s, t, j)
    ELSE 0

\* t in s
Contains(s, t) == Find(s, t) # 0

\* s[i:j] with 1-based inclusive bounds, empty when j < i
Slice(s, i, j) == IF j < i THEN <<>> ELSE SubSeq(s, i, j)

RECURSIVE Split(_, _)
Split(s, t) ==
    LET i == Find(s, t) IN
    IF i = 0 THEN <<s>>
    ELSE <<Slice(s, 1, i - 1)>> \o Split(Slice(s, i + Len(t), Len(s)), t)

\* s.split(t, 1): at most two parts, for a non-empty separator t
SplitOnce(s, t) ==
    LET i == Find(s, t) IN
    IF i = 0 THEN <<s>>
    ELSE <<Slice(s, 1, i - 1), Slice(s, i + Len(t), Len(s))>>

RECURSIVE Interleave(_, _)
Interleave(s, new) ==
    IF s = <<>> THEN new ELSE new \o <<Head(s)>> \o Interleave(Tail(s), new)

\* s.replace(old, new): every non-overlapping occurrence, left to right; an
\* empty old inserts new before every character and at the end
RECURSIVE Replace(_, _, _)
Replace(s, old, new) ==
    IF old = <<>> THEN Interleave(s, new)
    ELSE LET i == Find(s, old) IN
         IF i = 0 THEN s
         ELSE Slice(s, 1, i - 1) \o new \o Replace(Slice(s, i + Len(old), Len(s)), old, new)

\* s.strip()
RECURSIVE LStrip(_)
LStrip(s) == IF s # <<>> /\ IsSpace(Head(s)) THEN LStrip(Tail(s)) ELSE s
RECURSIVE RStrip(_)
RStrip(s) ==
    IF s # <<>> /\ IsSpace(s[Len(s)]) THEN RStrip(Slice(s, 1, Len(s) - 1)) ELSE s
Strip(s) == RStrip(LStrip(s))

\* re.sub(r'\s+', rep, s)
RECURSIVE SubWs(_, _)
SubWs(s, rep) ==
    IF s = <<>> THEN <<>>
    ELSE IF IsSpace(Head(s)) THEN rep \o SubWs(LStrip(s), rep)
    ELSE <<Head(s)>> \o SubWs(Tail(s), rep)

\* re.sub(r'\s+', ' ', s.strip())
NormalizeWs(s) == SubWs(Strip(s), <<" ">>)

\* re.search of the pattern _find_text_with_whitespace builds from pat
\* (re.escape, then every escaped space becomes \s+), anchored at position i
\* of text: the position after the match, or -1.  \s+ is greedy and backtracks.
RECURSIVE MatchFrom(_, _, _, _)
MatchFrom(pat, k, text, i) ==
    IF k > Len(pat) THEN i
    ELSE IF pat[k] = " " THEN
        LET ok == {n \in 1..(Len(text) - i + 1) :
                      /\ \A m \in 0..(n - 1) : IsSpace(text[i + m])
                      /\ MatchFrom(pat, k + 1, text, i + n) # -1}
        IN IF ok = {} THEN -1
           ELSE MatchFrom(pat, k + 1, text,
                          i + (CHOOSE n \in ok : \A m \in ok : m <= n))
    ELSE IF i <= Len(text) /\ text[i] = pat[k] THEN MatchFrom(pat, k + 1, text, i + 1)
    ELSE -1

\* match.group(0) of the leftmost match, <<>> when there is none
ReSearch(pat, text) ==
    LET starts == {i \in 1..(Len(text) + 1) : MatchFrom(pat, 1, text, i) # -1} IN
    IF starts = {} THEN <<>>
    ELSE LET i == CHOOSE i \in starts : \A j \in starts : i <= j
         IN Slice(text, i, MatchFrom(pat, 1, text, i) - 1)

(***************************************************************************)
(* python-docx document                                                    *)
(***************************************************************************)

\* paragraph.add_run(text): a run with no character formatting of its own
PlainRun(t) ==
    [kind |-> "run", text |-> t, bold |-> FALSE, italic |-> FALSE,
     underline |-> FALSE, strike |-> FALSE, color |-> "auto", pic |-> FALSE]

RECURSIVE Concat(_)
Concat(ss) == IF ss = <<>> THEN <<>> ELSE Head(ss) \o Concat(Tail(ss))

\* paragraph.runs: the w:r elements that are direct children
Runs(p) == SelectSeq(p, LAMBDA e : e.kind = "run")

\* paragraph.text: the text of paragraph.runs, joined
ParaText(p) == Concat([i \in 1..Len(Runs(p)) |-> Runs(p)[i].text])

\* what the rendered paragraph shows: runs, deletions and insertions alike
VisibleText(p) == Concat([i \in 1..Len(p) |-> p[i].text])

\* the run of the struck-through old text: font.strike, RGBColor(0, 0, 0)
DeletedRun(t) == [PlainRun(t) EXCEPT !.strike = TRUE, !.color = "black"]

\* the run of the underlined new text: font.underline, RGBColor(255, 0, 0)
AddedRun(t) == [PlainRun(t) EXCEPT !.underline = TRUE, !.color = "red"]

\* run.add_picture on a fresh paragraph.add_run()
PictureRun == [PlainRun(<<>>) EXCEPT !.pic = TRUE]

\* a run of the input document with its own formatting
BoldRun(t) == [PlainRun(t) EXCEPT !.bold = TRUE]
ItalicRun(t) == [PlainRun(t) EXCEPT !.italic = TRUE]

\* <<x>> if the Python value x is truthy (a non-empty str), else nothing
IfText(t) == IF t # <<>> THEN <<PlainRun(t)>> ELSE <<>>

(***************************************************************************)
(* AIRedliningService: the review path                                     *)
(***************************************************************************)

S_Tab == <<"\t">>
S_Space == <<" ">>
S_TwoSpaces == <<" ", " ">>
S_Signed == <<"S","i","g","n","e","d",":">>
S_SignedSp == <<"S","i","g","n","e","d",":"," ">>
S_SIGNATURE == <<"[","S","I","G","N","A","T","U","R","E","]">>

\* a variant of the rebuild that drops the text after the target
ReviewReplaceLost(p, old, new) ==
    LET text == ParaText(p) IN
    IF Contains(text, old) THEN
        LET parts == SplitOnce(text, old) IN
        [ok |-> TRUE,
         para |-> IfText(parts[1]) \o <<DeletedRun(old), AddedRun(new)>>]
    ELSE [ok |-> FALSE, para |-> p]

\* _replace_text_in_paragraph (AIRedliningService): the paragraph is cleared
\* and rebuilt as before + struck old + underlined new + after.  Returns
\* [ok, para].  python-docx's clear / add_run do not raise, so the except
\* branch is not taken.
ReviewReplaceTextInParagraph(p, old, new) ==
    LET text == ParaText(p) IN
    IF Contains(text, old) THEN
        LET parts == SplitOnce(text, old) IN
        [ok |-> TRUE,
         para |-> IfText(parts[1]) \o <<DeletedRun(old), AddedRun(new)>>
                  \o (IF Len(parts) > 1 THEN IfText(parts[2]) ELSE <<>>)]
    ELSE IF Contains(Lower(text), Lower(old)) THEN
        LET i == Find(Lower(text), Lower(old))
            actual == Slice(text, i, i + Len(old) - 1)
            parts == SplitOnce(text, actual)
        IN [ok |-> TRUE,
            para |-> IfText(parts[1]) \o <<DeletedRun(actual), AddedRun(new)>>
                     \o (IF Len(parts) > 1 THEN <<PlainRun(parts[2])>> ELSE <<>>)]
    ELSE [ok |-> FALSE, para |-> p]

\* _find_text_with_whitespace: the text of the paragraph that the search
\* text stands for; <<>> stands for None (both are falsy to the callers)
FindTextWithWhitespace(text, search) ==
    LET v1 == Replace(search, S_Space, S_Tab)
        v2 == Replace(search, S_Space, S_TwoSpaces)
        v3 == SubWs(search, S_Tab)
    IN IF Contains(text, search) THEN search
       ELSE IF Contains(text, v1) THEN v1
       ELSE IF Contains(text, v2) THEN v2
       ELSE IF Contains(text, v3) THEN v3
       ELSE ReSearch(search, text)

\* dict.get(key, ""): the value, "" for a missing key
GetCurrent(c) == IF c.current_kind = "str" THEN c.current_text ELSE <<>>

\* the exact-match loop of _apply_single_change from paragraph i on
RECURSIVE ReviewExactPass(_, _, _, _)
ReviewExactPass(d, i, old, new) ==
    IF i > Len(d) THEN [ok |-> FALSE, doc |-> d, para |-> 0]
    ELSE IF Contains(ParaText(d[i]), old) THEN
        LET r == ReviewReplaceTextInParagraph(d[i], old, new)
            d2 == [d EXCEPT ![i] = r.para]
        IN IF r.ok THEN [ok |-> TRUE, doc |-> d2, para |-> i]
           ELSE ReviewExactPass(d2, i + 1, old, new)
    ELSE ReviewExactPass(d, i + 1, old, new)

\* the whitespace-normalized loop of _apply_single_change from paragraph i on
RECURSIVE ReviewWhitespacePass(_, _, _, _)
ReviewWhitespacePass(d, i, old, new) ==
    IF i > Len(d) THEN [ok |-> FALSE, doc |-> d, para |-> 0]
    ELSE IF Contains(NormalizeWs(ParaText(d[i])), NormalizeWs(old)) THEN
        LET actual == FindTextWithWhitespace(ParaText(d[i]), old) IN
        IF actual # <<>> THEN
            LET r == ReviewReplaceTextInParagraph(d[i], actual, new)
                d2 == [d EXCEPT ![i] = r.para]
            IN IF r.ok THEN [ok |-> TRUE, doc |-> d2, para |-> i]
               ELSE ReviewWhitespacePass(d2, i + 1, old, new)
        ELSE ReviewWhitespacePass(d, i + 1, old, new)
    ELSE ReviewWhitespacePass(d, i + 1, old, new)

\* _apply_single_change: [ok, doc, para, why]; para is the paragraph rewritten
ApplySingleChange(d, c) ==
    LET old == GetCurrent(c)
        new == c.new_text
    IN IF old = <<>> \/ new = <<>>
       THEN [ok |-> FALSE, doc |-> d, para |-> 0, why |-> "empty"]
       ELSE LET e == ReviewExactPass(d, 1, old, new) IN
            IF e.ok THEN [ok |-> TRUE, doc |-> e.doc, para |-> e.para, why |-> "applied"]
            ELSE LET w == ReviewWhitespacePass(d, 1, old, new) IN
                 IF w.ok
                 THEN [ok |-> TRUE, doc |-> w.doc, para |-> w.para, why |-> "applied"]
                 ELSE [ok |-> FALSE, doc |-> d, para |-> 0, why |-> "notfound"]

\* first paragraph from i on whose text contains t, 0 if none
RECURSIVE FirstContaining(_, _, _)
FirstContaining(d, i, t) ==
    IF i > Len(d) THEN 0
    ELSE IF Contains(ParaText(d[i]), t) THEN i
    ELSE FirstContaining(d, i + 1, t)

\* _apply_signature (AIRedliningService): after "Signed:", else at a
\* [SIGNATURE] placeholder, else in the last paragraph; any exception
\* (doc.paragraphs[-1] of a document without paragraphs) is swallowed
ReviewApplySignature(d) ==
    LET s == FirstContaining(d, 1, S_Signed)
        h == FirstContaining(d, 1, S_SIGNATURE)
    IN IF s # 0 THEN
           LET parts == SplitOnce(ParaText(d[s]), S_Signed) IN
           [d EXCEPT ![s] =
               (IF Strip(parts[1]) # <<>> THEN <<PlainRun(parts[1])>> ELSE <<>>)
               \o <<PlainRun(S_SignedSp), PictureRun>>
               \o (IF Len(parts) > 1 /\ Strip(parts[2]) # <<>>
                   THEN <<PlainRun(parts[2])>> ELSE <<>>)]
       ELSE IF h # 0 THEN
           [d EXCEPT ![h] =
               <<[PlainRun(Replace(ParaText(d[h]), S_SIGNATURE, <<>>)) EXCEPT !.pic = TRUE]>>]
       ELSE IF Len(d) > 0 THEN [d EXCEPT ![Len(d)] = @ \o <<PictureRun>>]
       ELSE d

(***************************************************************************)
(* DocumentProcessor: the batch path                                       *)
(***************************************************************************)

S_Colon == <<":">>
S_Company == <<"C","o","m","p","a","n","y">>
S_Comapny == <<"C","o","m","a","p","n","y">>
S_company == <<"c","o","m","p","a","n","y">>
S_ForCompany == <<"F","o","r",":"," ","C","o","m","p","a","n","y">>
S_ForCompanyNoSpace == <<"F","o","r",":","C","o","m","p","a","n","y">>
S_ForCompanyNoColon == <<"F","o","r"," ","C","o","m","p","a","n","y">>
S_forcompany == <<"f","o","r",":"," ","c","o","m","p","a","n","y">>
S_FORCOMPANY == <<"F","O","R",":"," ","C","O","M","P","A","N","Y">>
S_ForCompany2 == <<"F","o","r",":"," "," ","C","o","m","p","a","n","y">>
S_ForCompany3 == <<"F","o","r",":"," "," "," ","C","o","m","p","a","n","y">>
S_ForCompany4 == <<"F","o","r",":"," "," "," "," ","C","o","m","p","a","n","y">>
S_ForTabCompany == <<"F","o","r",":","\t","C","o","m","p","a","n","y">>
S_ForSpTabCompany == <<"F","o","r",":"," ","\t","C","o","m","p","a","n","y">>
S_ForTabSpCompany == <<"F","o","r",":","\t"," ","C","o","m","p","a","n","y">>
S_ForSpTabSpCompany == <<"F","o","r",":"," ","\t"," ","C","o","m","p","a","n","y">>
S_5 == <<"5">>
S_five5 == <<"f","i","v","e"," ","(","5",")">>
S_years == <<"y","e","a","r","s">>
S_year == <<"y","e","a","r">>
S_five5years == <<"f","i","v","e"," ","(","5",")"," ","y","e","a","r","s">>
S_fiveyears == <<"f","i","v","e"," ","y","e","a","r","s">>
S_5year == <<"5"," ","y","e","a","r">>
S_fiveyear == <<"f","i","v","e"," ","y","e","a","r">>
S_For == <<"F","o","r",":"," ">>
S_CompanyName == <<"C","o","m","p","a","n","y"," ","(","n","a","m","e"," ","t","o"," ","b","e"," ","p","r","o","v","i","d","e","d"," ","u","p","o","n"," ","e","x","e","c","u","t","i","o","n",")">>
S_ForCompanyName == <<"F","o","r",":"," ","C","o","m","p","a","n","y"," ","(","n","a","m","e"," ","t","o"," ","b","e"," ","p","r","o","v","i","d","e","d"," ","u","p","o","n"," ","e","x","e","c","u","t","i","o","n",")">>
S_NameSuffix == <<" ","(","n","a","m","e"," ","t","o"," ","b","e"," ","p","r","o","v","i","d","e","d"," ","u","p","o","n"," ","e","x","e","c","u","t","i","o","n",")">>
S_FIRM_NAME == <<"[","F","I","R","M","_","N","A","M","E","]">>
S_FIRM_ADDRESS == <<"[","F","I","R","M","_","A","D","D","R","E","S","S","]">>
S_SIGNER_NAME == <<"[","S","I","G","N","E","R","_","N","A","M","E","]">>
S_SIGNER_TITLE == <<"[","S","I","G","N","E","R","_","T","I","T","L","E","]">>

\* chunk_size of _replace_text_chunked and _delete_text_chunked
ChunkSize == 500

\* _add_track_change_deletion on a fresh run: the run is replaced by a w:del
\* element holding the text as w:delText; if building the markup raises, the
\* run is kept and struck through instead
TrackDeletion(t, nat) ==
    IF nat
    THEN [PlainRun(t) EXCEPT !.kind = "del", !.strike = TRUE]
    ELSE [PlainRun(t) EXCEPT !.strike = TRUE, !.color = "black"]

\* _add_track_change_insertion on a fresh run: a w:ins element, or the run
\* underlined in red
TrackInsertion(t, nat) ==
    IF nat
    THEN [PlainRun(t) EXCEPT !.kind = "ins", !.underline = TRUE, !.color = "red"]
    ELSE [PlainRun(t) EXCEPT !.underline = TRUE, !.color = "red"]

\* index of the first run (direct child) of p whose text contains t, 0 if none
FirstRunContaining(p, t) ==
    LET First(hits) ==
            IF hits = {} THEN 0 ELSE CHOOSE j \in hits : \A k \in hits : j <= k
    IN First({j \in 1..Len(p) : p[j].kind = "run" /\ Contains(p[j].text, t)})

\* _replace_text_in_paragraph (DocumentProcessor): [ok, para].
\*  - a run that holds old: run.text = run.text.replace(old, new), and the
\*    run is underlined in red;
\*  - else old spans runs: the paragraph is cleared and rebuilt from
\*    original_text.split(old) as parts[0], deletion, insertion, parts[1];
\*  - else a case-insensitive occurrence is rebuilt with visual formatting.
\* An empty old in a paragraph without runs makes split raise ValueError;
\* the except branch clears the paragraph, split raises again, and the
\* function returns False.
DPReplaceTextInParagraph(p, old, new, nat) ==
    LET InRun(j) ==
            [ok |-> TRUE,
             para |-> [p EXCEPT ![j] = [@ EXCEPT !.text = Replace(@, old, new),
                                                 !.underline = TRUE,
                                                 !.color = "red",
                                                 !.pic = FALSE]]]
        Rebuilt(parts) ==
            [ok |-> TRUE,
             para |-> IfText(parts[1])
                      \o <<TrackDeletion(old, nat), TrackInsertion(new, nat)>>
                      \o (IF Len(parts) > 1 THEN <<PlainRun(parts[2])>> ELSE <<>>)]
        RebuiltAs(actual, parts) ==
            [ok |-> TRUE,
             para |-> IfText(parts[1]) \o <<DeletedRun(actual), AddedRun(new)>>
                      \o (IF Len(parts) > 1 THEN <<PlainRun(parts[2])>> ELSE <<>>)]
        AnyCase(text, actual) == RebuiltAs(actual, SplitOnce(text, actual))
        AtIndex(text, i) == AnyCase(text, Slice(text, i, i + Len(old) - 1))
        OnText(text) ==
            IF Contains(text, old) THEN
                IF old = <<>> THEN [ok |-> FALSE, para |-> <<>>]
                ELSE Rebuilt(Split(text, old))
            ELSE IF Contains(Lower(text), Lower(old)) THEN
                AtIndex(text, Find(Lower(text), Lower(old)))
            ELSE [ok |-> FALSE, para |-> p]
        OnRun(j) == IF j # 0 THEN InRun(j) ELSE OnText(ParaText(p))
    IN OnRun(FirstRunContaining(p, old))

\* variations_to_search of _replace_text
VariationsToSearch(old) ==
    << old,
       Replace(old, S_Space, <<>>),
       Replace(old, S_Colon, <<>>),
       Lower(old),
       Upper(old),
       Replace(old, S_Company, S_Comapny),
       Replace(old, S_Company, S_company),
       S_ForCompany, S_ForCompanyNoSpace, S_ForCompanyNoColon, S_forcompany,
       S_FORCOMPANY, S_ForCompany2, S_ForCompany3, S_ForCompany4,
       S_ForTabCompany, S_ForSpTabCompany, S_ForTabSpCompany, S_ForSpTabSpCompany >>

\* variations of _replace_text
Variations(old) ==
    << Replace(old, S_5, S_five5),
       Replace(old, S_five5, S_5),
       Replace(old, S_years, S_year),
       Replace(old, S_year, S_years),
       S_five5years, S_fiveyears, S_5year, S_fiveyear,
       Replace(old, S_For, <<>>),
       Replace(old, S_CompanyName, S_Company),
       S_Company, S_ForCompany, S_CompanyName, S_ForCompanyName,
       S_For \o old,
       old \o S_NameSuffix,
       S_For \o old \o S_NameSuffix >>

\* what a paragraph loop does with the result r of rewriting paragraph i:
\* the paragraph is what the call left; [ok, doc]
InParagraph(d, i, r) == [ok |-> r.ok, doc |-> [d EXCEPT ![i] = r.para]]

\* for paragraph in doc.paragraphs: if needle in paragraph.text: if
\* _replace_text_in_paragraph(paragraph, needle, new): break -- from paragraph i
RECURSIVE DPNeedlePass(_, _, _, _, _)
DPNeedlePass(d, i, needle, new, nat) ==
    IF i > Len(d) THEN [ok |-> FALSE, doc |-> d]
    ELSE IF Contains(ParaText(d[i]), needle) THEN
        LET Go(q) == IF q.ok THEN q ELSE DPNeedlePass(q.doc, i + 1, needle, new, nat)
        IN Go(InParagraph(d, i, DPReplaceTextInParagraph(d[i], needle, new, nat)))
    ELSE DPNeedlePass(d, i + 1, needle, new, nat)

\* the loop over variations_to_search inside one paragraph, from entry k
RECURSIVE DPVariationsInParagraph(_, _, _, _, _)
DPVariationsInParagraph(p, vs, k, new, nat) ==
    IF k > Len(vs) THEN [ok |-> FALSE, para |-> p]
    ELSE IF Contains(ParaText(p), vs[k]) THEN
        LET Go(r) == IF r.ok THEN r
                     ELSE DPVariationsInParagraph(r.para, vs, k + 1, new, nat)
        IN Go(DPReplaceTextInParagraph(p, vs[k], new, nat))
    ELSE DPVariationsInParagraph(p, vs, k + 1, new, nat)

\* the normalized-whitespace loop of _replace_text, from paragraph i
RECURSIVE DPNormalizedPass(_, _, _, _, _)
DPNormalizedPass(d, i, old, new, nat) ==
    IF i > Len(d) THEN [ok |-> FALSE, doc |-> d]
    ELSE IF Contains(Lower(NormalizeWs(ParaText(d[i]))), Lower(NormalizeWs(old))) THEN
        LET Go(q) == IF q.ok THEN q ELSE DPNormalizedPass(q.doc, i + 1, old, new, nat)
        IN Go(InParagraph(d, i,
                IF Contains(ParaText(d[i]), old)
                THEN DPReplaceTextInParagraph(d[i], old, new, nat)
                ELSE DPVariationsInParagraph(d[i], VariationsToSearch(old), 1, new, nat)))
    ELSE DPNormalizedPass(d, i + 1, old, new, nat)

\* the loop over variations, from entry k: each non-empty variation other
\* than old is searched in every paragraph
RECURSIVE DPVariationsPass(_, _, _, _, _, _)
DPVariationsPass(d, vs, k, old, new, nat) ==
    IF k > Len(vs) THEN [ok |-> FALSE, doc |-> d]
    ELSE IF vs[k] # <<>> /\ vs[k] # old THEN
        LET Go(r) == IF r.ok THEN r
                     ELSE DPVariationsPass(r.doc, vs, k + 1, old, new, nat)
        IN Go(DPNeedlePass(d, 1, vs[k], new, nat))
    ELSE DPVariationsPass(d, vs, k + 1, old, new, nat)

\* the case-insensitive loop of _replace_text, from paragraph i
RECURSIVE DPCaseInsensitivePass(_, _, _, _, _)
DPCaseInsensitivePass(d, i, old, new, nat) ==
    IF i > Len(d) THEN [ok |-> FALSE, doc |-> d]
    ELSE IF Contains(Lower(ParaText(d[i])), Lower(old)) THEN
        LET Go(q) == IF q.ok THEN q
                     ELSE DPCaseInsensitivePass(q.doc, i + 1, old, new, nat)
        IN Go(InParagraph(d, i, DPReplaceTextInParagraph(d[i], old, new, nat)))
    ELSE DPCaseInsensitivePass(d, i + 1, old, new, nat)

\* _replace_text: exact, then normalized whitespace, then the variations,
\* then case-insensitive; [ok, doc] with ok the final value of replaced
DPReplaceText(d, old, new, nat) ==
    LET AfterVariations(v) ==
            IF v.ok THEN v ELSE DPCaseInsensitivePass(v.doc, 1, old, new, nat)
        AfterNormalized(n) ==
            IF n.ok THEN n
            ELSE AfterVariations(DPVariationsPass(n.doc, Variations(old), 1, old, new, nat))
        AfterExact(e) ==
            IF e.ok THEN e ELSE AfterNormalized(DPNormalizedPass(e.doc, 1, old, new, nat))
    IN AfterExact(DPNeedlePass(d, 1, old, new, nat))

\* the paragraph loop of one chunk [j, chunk_end) of _replace_text_chunked
\* (0-based j as in the code): the first paragraph that contains old is
\* handed to _replace_text_in_paragraph, whose result is not looked at
RECURSIVE DPChunkScan(_, _, _, _, _, _)
DPChunkScan(d, j, chunk_end, old, new, nat) ==
    IF j >= chunk_end THEN [ok |-> FALSE, doc |-> d]
    ELSE IF j < Len(d) /\ Contains(ParaText(d[j + 1]), old) THEN
        [ok |-> TRUE,
         doc |-> [d EXCEPT ![j + 1] = DPReplaceTextInParagraph(@, old, new, nat).para]]
    ELSE DPChunkScan(d, j + 1, chunk_end, old, new, nat)

\* the chunk loop of _replace_text_chunked from chunk start i
RECURSIVE DPReplaceChunks(_, _, _, _, _, _)
DPReplaceChunks(d, i, total, old, new, nat) ==
    IF i >= total THEN [ok |-> FALSE, doc |-> d]
    ELSE LET Go(chunk_end, r) ==
                 IF r.ok THEN r ELSE DPReplaceChunks(r.doc, chunk_end, total, old, new, nat)
             Chunk(chunk_end) == Go(chunk_end, DPChunkScan(d, i, chunk_end, old, new, nat))
         IN Chunk(IF i + ChunkSize < total THEN i + ChunkSize ELSE total)

\* every paragraph that contains old rewritten, not only the first
DPReplaceTextEverywhere(d, old, new, nat) ==
    [ok |-> \E k \in 1..Len(d) : Contains(ParaText(d[k]), old),
     doc |-> [k \in 1..Len(d) |->
                IF Contains(ParaText(d[k]), old)
                THEN DPReplaceTextInParagraph(d[k], old, new, nat).para
                ELSE d[k]]]

DPReplaceTextChunked(d, old, new, nat) == DPReplaceChunks(d, 0, Len(d), old, new, nat)

\* _delete_text and _delete_text_chunked: in every paragraph that contains
\* text, paragraph.text = paragraph.text.replace(text, ''), and every run of
\* it is struck through
DPDeleteText(d, t) ==
    [ok |-> \E i \in 1..Len(d) : Contains(ParaText(d[i]), t),
     doc |-> [i \in 1..Len(d) |->
                IF Contains(ParaText(d[i]), t)
                THEN <<[PlainRun(Replace(ParaText(d[i]), t, <<>>)) EXCEPT !.strike = TRUE]>>
                ELSE d[i]]]

\* the new paragraph put before the first paragraph of the document
DPAddParagraphFirst(d, t) ==
    [ok |-> TRUE, doc |-> <<IF t # <<>> THEN <<AddedRun(t)>> ELSE <<>>>> \o d]

\* _insert_text, _add_clause and their chunked twins: doc.add_paragraph(text)
\* with every run of it underlined in red
DPAddParagraph(d, t) ==
    [ok |-> TRUE, doc |-> Append(d, IF t # <<>> THEN <<AddedRun(t)>> ELSE <<>>)]

\* the body of the try in one iteration of _apply_modifications (chunked: of
\* _apply_modifications_chunked): [ok, doc, why].  mod['current_text'] of a
\* missing key raises KeyError, a null current_text raises inside
\* _replace_text / _delete_text before any paragraph is touched; the except
\* of the loop logs it and continues.
DPApplyModification(d, m, chunked, nat) ==
    LET needsCurrent == m.type \in {"TEXT_REPLACE", "TEXT_DELETE"} IN
    IF needsCurrent /\ m.current_kind = "missing"
    THEN [ok |-> FALSE, doc |-> d, why |-> "error"]
    ELSE IF needsCurrent /\ m.current_kind = "null"
    THEN [ok |-> FALSE, doc |-> d,
          why |-> IF (m.type = "TEXT_REPLACE" /\ ~chunked) \/ Len(d) > 0
                  THEN "error" ELSE "notfound"]
    ELSE LET Outcome(r) == [ok |-> r.ok, doc |-> r.doc,
                             why |-> IF r.ok THEN "applied" ELSE "notfound"]
         IN Outcome(CASE m.type = "TEXT_REPLACE" /\ ~chunked ->
                          DPReplaceText(d, m.current_text, m.new_text, nat)
                    [] m.type = "TEXT_REPLACE" /\ chunked ->
                          DPReplaceTextChunked(d, m.current_text, m.new_text, nat)
                    [] m.type = "TEXT_DELETE" -> DPDeleteText(d, m.current_text)
                    [] m.type \in {"TEXT_INSERT", "CLAUSE_ADD"} ->
                          DPAddParagraph(d, m.new_text)
                    [] OTHER -> [ok |-> FALSE, doc |-> d])

\* _apply_modifications / _apply_modifications_chunked on a whole list:
\* [doc, outcomes]
RECURSIVE DPRun(_, _, _, _)
DPRun(d, ms, chunked, nat) ==
    IF ms = <<>> THEN [doc |-> d, outcomes |-> <<>>]
    ELSE LET Cons(why, rest) == [doc |-> rest.doc, outcomes |-> <<why>> \o rest.outcomes]
             Then(r) == Cons(r.why, DPRun(r.doc, Tail(ms), chunked, nat))
         IN Then(DPApplyModification(d, Head(ms), chunked, nat))

\* firm_details.get(key, '') of the firm details the call is given
FirmDetails ==
    [name |-> <<"A","c","m","e">>,
     address |-> <<"1"," ","M","a","i","n"," ","S","t">>,
     signerName |-> <<"A","n","n"," ","L","e","e">>,
     signerTitle |-> <<"P","a","r","t","n","e","r">>]

\* one placeholder of _apply_firm_details in one paragraph: paragraph.text
\* is reassigned and every run underlined in red
FillPlaceholder(p, ph, val) ==
    IF Contains(ParaText(p), ph)
    THEN <<AddedRun(Replace(ParaText(p), ph, val))>>
    ELSE p

\* _apply_firm_details and _apply_firm_details_chunked
DPApplyFirmDetails(d, fd) ==
    [i \in 1..Len(d) |->
        FillPlaceholder(
            FillPlaceholder(
                FillPlaceholder(
                    FillPlaceholder(d[i], S_FIRM_NAME, fd.name),
                    S_FIRM_ADDRESS, fd.address),
                S_SIGNER_NAME, fd.signerName),
            S_SIGNER_TITLE, fd.signerTitle)]

\* _apply_signature (DocumentProcessor): after "Signed:", else at a
\* [SIGNATURE] placeholder, else in a new last paragraph "Signed: " + image
DPApplySignature(d) ==
    LET s == FirstContaining(d, 1, S_Signed)
        h == FirstContaining(d, 1, S_SIGNATURE)
    IN IF s # 0 THEN
           LET parts == SplitOnce(ParaText(d[s]), S_Signed) IN
           [d EXCEPT ![s] =
               (IF Strip(parts[1]) # <<>> THEN <<PlainRun(parts[1])>> ELSE <<>>)
               \o <<PlainRun(S_SignedSp), PictureRun>>
               \o (IF Len(parts) > 1 /\ Strip(parts[2]) # <<>>
                   THEN <<PlainRun(parts[2])>> ELSE <<>>)]
       ELSE IF h # 0 THEN
           [d EXCEPT ![h] =
               <<[PlainRun(Replace(ParaText(d[h]), S_SIGNATURE, <<>>)) EXCEPT !.pic = TRUE]>>]
       ELSE Append(d, <<PlainRun(S_SignedSp), PictureRun>>)

S_signed == <<"s","i","g","n","e","d",":">>
S_by == <<"b","y",":">>
S_Underscore == <<"_">>

\* str.startswith
StartsWith(s, t) == Len(t) <= Len(s) /\ SubSeq(s, 1, Len(t)) = t

\* the last match of re.finditer(r'(_+)', text): [start, end] as 1-based
\* positions of its first and last underscore; text holds an underscore
LastUnderscores(text) ==
    LET last == CHOOSE j \in 1..Len(text) :
                    /\ text[j] = "_"
                    /\ \A k \in (j + 1)..Len(text) : text[k] # "_"
        RunStart(e) == CHOOSE j \in 1..e :
                    /\ \A k \in j..e : text[k] = "_"
                    /\ (j = 1 \/ text[j - 1] # "_")
        Match(e) == [start |-> RunStart(e), end |-> e]
    IN Match(last)

\* the test of _insert_signature for a signature line
IsSignatureLine(text) ==
    \/ StartsWith(Lower(Strip(text)), S_signed)
    \/ (StartsWith(Lower(Strip(text)), S_by) /\ Contains(text, S_Underscore))

\* what _insert_signature makes of the signature line p
SignedLine(p) ==
    LET Rebuilt(text, m) ==
            IfText(Slice(text, 1, m.start - 1))
            \o <<[PlainRun(Slice(text, m.start, m.end)) EXCEPT !.strike = TRUE]>>
            \o <<PictureRun>>
            \o IfText(Slice(text, m.end + 1, Len(text)))
        OnText(text) ==
            IF Contains(text, S_Underscore)
            THEN Rebuilt(text, LastUnderscores(text))
            ELSE p \o <<PlainRun(S_Space), PictureRun>>
    IN OnText(ParaText(p))

\* _insert_signature: the first body paragraph that starts with "signed:",
\* or with "by:" and holds an underscore, gets the image after its last run
\* of underscores; no such paragraph, no signature
RECURSIVE DPInsertSignature(_, _)
DPInsertSignature(d, i) ==
    IF i > Len(d) THEN d
    ELSE IF IsSignatureLine(ParaText(d[i])) THEN [d EXCEPT ![i] = SignedLine(d[i])]
    ELSE DPInsertSignature(d, i + 1)

\* the paragraph loop of DocumentProcessor.apply_accepted_changes over
\* all_paragraphs ps, from entry i: [why, ps].  A paragraph that holds
\* current_text is rewritten; for one that does not, the loop calls
\* self._find_text_with_whitespace, which DocumentProcessor does not have:
\* AttributeError, caught by the except of the change.
RECURSIVE AcceptedScan(_, _, _, _, _)
AcceptedScan(ps, i, old, new, nat) ==
    IF i > Len(ps) THEN [why |-> "notfound", ps |-> ps]
    ELSE IF Contains(ParaText(ps[i]), old) THEN
        LET Go(q) == IF q.ok THEN [why |-> "applied", ps |-> q.doc]
                     ELSE AcceptedScan(q.doc, i + 1, old, new, nat)
        IN Go(InParagraph(ps, i, DPReplaceTextInParagraph(ps[i], old, new, nat)))
    ELSE [why |-> "error", ps |-> ps]

\* one change of DocumentProcessor.apply_accepted_changes on the body
\* paragraphs d and the table-cell paragraphs c: [why, doc, cells]
DPApplyAcceptedChange(d, c, ch, nat) ==
    LET Back(r) == [why |-> r.why,
                    doc |-> SubSeq(r.ps, 1, Len(d)),
                    cells |-> SubSeq(r.ps, Len(d) + 1, Len(d) + Len(c))]
    IN IF ch.current_text = <<>> \/ ch.new_text = <<>>
       THEN [why |-> "empty", doc |-> d, cells |-> c]
       ELSE Back(AcceptedScan(d \o c, 1, ch.current_text, ch.new_text, nat))

(***************************************************************************)
(* AIRedliningService.analyze_document: the planner's answer, parsed,      *)
(* validated, completed and returned                                       *)
(***************************************************************************)

\* one element of a compiled re pattern: a literal string
Lit(s) == [kind |-> "lit", s |-> s, lo |-> 1, hi |-> 1]

\* one element of a compiled re pattern: a character class repeated lo to hi
\* times (hi = -1: unlimited).  kind is "space" (\s, [\t\s]), "digit" (\d),
\* "upper" ([A-Z]), "lower" ([a-z]), "alpha" ([A-Za-z]) or "char" (the one
\* character c)
Rep(kind, c, lo, hi) == [kind |-> kind, s |-> c, lo |-> lo, hi |-> hi]

\* ch is in the class of pattern element a; icase is re.IGNORECASE
InClass(a, ch, icase) ==
    LET IsUpper(x) == x \in {"A","B","C","D","E","F","G","H","I","J","K","L","M",
                               "N","O","P","Q","R","S","T","U","V","W","X","Y","Z"}
        IsLower(x) == x \in {"a","b","c","d","e","f","g","h","i","j","k","l","m",
                               "n","o","p","q","r","s","t","u","v","w","x","y","z"}
    IN CASE a.kind = "space" -> IsSpace(ch)
         [] a.kind = "digit" -> ch \in {"0", "1", "2", "3", "4", "5", "6", "7", "8", "9"}
         [] a.kind = "upper" -> IsUpper(ch) \/ (icase /\ IsLower(ch))
         [] a.kind = "lower" -> IsLower(ch) \/ (icase /\ IsUpper(ch))
         [] a.kind = "alpha" -> IsUpper(ch) \/ IsLower(ch)
         [] OTHER -> ch = a.s[1] \/ (icase /\ LowerChar(ch) = LowerChar(a.s[1]))

\* the match of pattern elements k.. of pat anchored at position i of text:
\* the position after the match, or -1.  Repetitions are greedy and backtrack.
RECURSIVE ReMatch(_, _, _, _, _)
ReMatch(pat, k, text, i, icase) ==
    IF k > Len(pat) THEN i
    ELSE IF pat[k].kind = "lit" THEN
        LET n == Len(pat[k].s) IN
        IF /\ i + n - 1 <= Len(text)
           /\ \A m \in 1..n :
                 \/ text[i + m - 1] = pat[k].s[m]
                 \/ icase /\ LowerChar(text[i + m - 1]) = LowerChar(pat[k].s[m])
        THEN ReMatch(pat, k + 1, text, i + n, icase)
        ELSE -1
    ELSE
        LET Longest(ok) ==
                IF ok = {} THEN -1
                ELSE ReMatch(pat, k + 1, text,
                             i + (CHOOSE n \in ok : \A m \in ok : m <= n), icase)
        IN Longest({n \in pat[k].lo..(Len(text) - i + 1) :
                       /\ pat[k].hi = -1 \/ n <= pat[k].hi
                       /\ \A m \in 0..(n - 1) : InClass(pat[k], text[i + m], icase)
                       /\ ReMatch(pat, k + 1, text, i + n, icase) # -1})

\* [m.group(0) for m in re.finditer(pat, text)] from position from on: the
\* leftmost match, then the matches after its end
RECURSIVE ReFindAll(_, _, _, _)
ReFindAll(pat, text, from, icase) ==
    LET After(i, e) ==
            <<Slice(text, i, e - 1)>>
                \o ReFindAll(pat, text, IF e > i THEN e ELSE i + 1, icase)
        First(starts) ==
            IF starts = {} THEN <<>>
            ELSE LET At(i) == After(i, ReMatch(pat, 1, text, i, icase))
                 IN At(CHOOSE i \in starts : \A j \in starts : i <= j)
    IN First({i \in from..(Len(text) + 1) : ReMatch(pat, 1, text, i, icase) # -1})

\* re.finditer(label + r'[\t\s]+_+', document_text): group(0) of the first
\* match, <<>> when there is none
FirstLabelBlank(label, text) ==
    LET First(matches) == IF matches = <<>> THEN <<>> ELSE matches[1]
    IN First(ReFindAll(<<Lit(label), Rep("space", <<>>, 1, -1), Rep("char", <<"_">>, 1, -1)>>,
                       text, 1, FALSE))

\* mod.get('current_text', '') and mod.get('new_text', '')
CurrentOf(mod) == IF mod.current_kind = "str" THEN mod.current_text ELSE <<>>
NewOf(mod) == IF mod.new_kind = "str" THEN mod.new_text ELSE <<>>

\* _parse_ai_response on the "modifications" array of the answer: the two
\* texts of every entry are unescaped with str.replace; on an entry whose
\* text is null str.replace does not exist, the AttributeError is caught and
\* the empty list is returned.  An entry whose key is missing is left alone.
\* origin records the position of the entry in the planner's list.
ParseAIResponse(modifications) ==
    LET Unescape(s) == Replace(Replace(s, <<"\\", "t">>, <<"\t">>), <<"\\", "n">>, <<"\n">>) IN
    IF \E i \in 1..Len(modifications) :
          modifications[i].current_kind = "null" \/ modifications[i].new_kind = "null"
    THEN <<>>
    ELSE [i \in 1..Len(modifications) |->
            [type |-> modifications[i].type,
             section |-> modifications[i].section,
             current_kind |-> modifications[i].current_kind,
             current_text |-> Unescape(modifications[i].current_text),
             new_kind |-> modifications[i].new_kind,
             new_text |-> Unescape(modifications[i].new_text),
             origin |-> i]]

\* the date check of the validation loop: new_text names a month and
\* current_text is neither a "pure date" nor starts with a date label
RejectsDate(mod) ==
    LET current_text == CurrentOf(mod)
        months == {<<"J", "a", "n", "u", "a", "r", "y">>, <<"F", "e", "b", "r", "u", "a", "r", "y">>, <<"M", "a", "r", "c", "h">>, <<"A", "p", "r", "i", "l">>, <<"M", "a", "y">>, <<"J", "u", "n", "e">>, <<"J", "u", "l", "y">>,
                   <<"A", "u", "g", "u", "s", "t">>, <<"S", "e", "p", "t", "e", "m", "b", "e", "r">>, <<"O", "c", "t", "o", "b", "e", "r">>, <<"N", "o", "v", "e", "m", "b", "e", "r">>, <<"D", "e", "c", "e", "m", "b", "e", "r">>}
        forbidden_words == {<<"c", "o", "m", "p", "a", "n", "y">>, <<"a", "g", "r", "e", "e", "m", "e", "n", "t">>, <<"c", "o", "n", "f", "i", "d", "e", "n", "t", "i", "a", "l", "i", "t", "y">>, <<"n", "d", "a">>, <<"b", "u", "s", "i", "n", "e", "s", "s">>,
                            <<"d", "e", "a", "r">>, <<"n", "a", "m", "e">>, <<"f", "o", "r", ":">>, <<"b", "y", ":">>, <<"t", "i", "t", "l", "e", ":">>, <<"e", "f", "f", "e", "c", "t", "i", "v", "e">>, <<"m", "u", "t", "u", "a", "l">>}
        commas == Cardinality({i \in 1..Len(current_text) : current_text[i] = ","})
        is_pure_date ==
            /\ Len(Strip(current_text)) < 25
            /\ commas = 1
            /\ ~ \E word \in forbidden_words : Contains(Lower(current_text), word)
        has_date_label ==
            \E label \in {<<"D", "a", "t", "e", ":">>, <<"D", "a", "t", "e", "d", ":">>, <<"D", "A", "T", "E", ":">>, <<"D", "A", "T", "E", "D", ":">>} :
                StartsWith(Strip(current_text), label)
    IN /\ \E month \in months : Contains(NewOf(mod), month)
       /\ ~ is_pure_date
       /\ ~ has_date_label

\* the "Company" check of the validation loop
RejectsCompany(mod) ==
    LET current_text == CurrentOf(mod)
        invalid_contexts == {<<"(", "t", "h", "e", " ", "\"", "C", "o", "m", "p", "a", "n", "y", "\"", ")">>, <<"(", "t", "h", "e", " ", "'", "C", "o", "m", "p", "a", "n", "y", "'", ")">>, <<"t", "h", "e", " ", "C", "o", "m", "p", "a", "n", "y">>,
                             <<"c", "o", "n", "c", "e", "r", "n", "i", "n", "g", " ", "t", "h", "e", " ", "C", "o", "m", "p", "a", "n", "y">>, <<"r", "e", "g", "a", "r", "d", "i", "n", "g", " ", "t", "h", "e", " ", "C", "o", "m", "p", "a", "n", "y">>,
                             <<"a", "b", "o", "u", "t", " ", "t", "h", "e", " ", "C", "o", "m", "p", "a", "n", "y">>, <<"o", "f", " ", "t", "h", "e", " ", "C", "o", "m", "p", "a", "n", "y">>, <<"b", "u", "s", "i", "n", "e", "s", "s", " ", "(", "t", "h", "e">>,
                             <<"m", "a", "c", "h", "i", "n", "i", "n", "g", " ", "b", "u", "s", "i", "n", "e", "s", "s">>}
        valid_contexts == {<<"F", "o", "r", ":", " ", "C", "o", "m", "p", "a", "n", "y">>, <<"F", "o", "r", ":", "\t", "C", "o", "m", "p", "a", "n", "y">>, <<"F", "o", "r", ":", " ", "\t", "C", "o", "m", "p", "a", "n", "y">>,
                           <<"C", "o", "m", "p", "a", "n", "y", " ", "(", "n", "a", "m", "e", " ", "t", "o", " ", "b", "e", " ", "p", "r", "o", "v", "i", "d", "e", "d", " ", "u", "p", "o", "n", " ", "e", "x", "e", "c", "u", "t", "i", "o", "n", ")">>}
        is_invalid == \E ctx \in invalid_contexts : Contains(current_text, ctx)
        is_valid == \E ctx \in valid_contexts : StartsWith(Strip(current_text), ctx)
    IN /\ Contains(current_text, <<"C", "o", "m", "p", "a", "n", "y">>)
       /\ is_invalid \/ (~ is_valid /\ Len(current_text) > 20)

\* invalid_modifications: the indices the validation loop collects, ascending
InvalidModifications(modifications) ==
    SelectSeq([i \in 1..Len(modifications) |-> i],
              LAMBDA i : RejectsDate(modifications[i]) \/ RejectsCompany(modifications[i]))

\* modifications.pop(idx) for every idx of indices, in that order
RECURSIVE PopEach(_, _)
PopEach(modifications, indices) ==
    IF indices = <<>> THEN modifications
    ELSE PopEach(Slice(modifications, 1, Head(indices) - 1)
                    \o Slice(modifications, Head(indices) + 1, Len(modifications)),
                 Tail(indices))

\* a variant of the removal that pops the first collected index only
RemoveInvalidFirstOnly(modifications, invalid) ==
    IF invalid = <<>> THEN modifications ELSE PopEach(modifications, <<invalid[1]>>)

\* for idx in reversed(invalid_modifications): modifications.pop(idx)
RemoveInvalid(modifications, invalid) ==
    PopEach(modifications, [k \in 1..Len(invalid) |-> invalid[Len(invalid) + 1 - k]])

\* the key normalization at the head of analyze_document: the dict is
\* rebuilt from the frontend keys (name, signerName, signerTitle; <<>> stands
\* for a key that was not passed), every other key is lost
NormalizedFirmDetails(details) ==
    [firm_name |-> details.name,
     signatory_name |-> details.signerName,
     title |-> details.signerTitle]

\* the expansion of a bare By: / Title: / Date: target to the label and its
\* underscores as the document has them
ExpandLabels(mod, text) ==
    LET current == Strip(CurrentOf(mod))
        Expanded(full) ==
            IF full = <<>> THEN mod
            ELSE [mod EXCEPT !.current_kind = "str", !.current_text = full]
    IN IF mod.type # "TEXT_REPLACE" THEN mod
       ELSE IF current = <<"B", "y", ":">> \/ (StartsWith(current, <<"B", "y", ":">>) /\ Len(current) < 10)
       THEN Expanded(FirstLabelBlank(<<"B", "y", ":">>, text))
       ELSE IF \/ current = <<"T", "i", "t", "l", "e", ":">>
               \/ /\ StartsWith(current, <<"T", "i", "t", "l", "e", ":">>)
                  /\ Len(current) < 15
                  /\ ~ Contains(current, <<"_">>)
       THEN Expanded(FirstLabelBlank(<<"T", "i", "t", "l", "e", ":">>, text))
       ELSE IF \/ current = <<"D", "a", "t", "e", ":">>
               \/ /\ StartsWith(current, <<"D", "a", "t", "e", ":">>)
                  /\ Len(current) < 15
                  /\ ~ Contains(current, <<"_">>)
       THEN Expanded(FirstLabelBlank(<<"D", "a", "t", "e", ":">>, text))
       ELSE mod

\* for hardcoded in ...: if hardcoded in s: s = s.replace(hardcoded, value)
RECURSIVE ReplaceEach(_, _, _)
ReplaceEach(s, hardcoded, value) ==
    IF hardcoded = <<>> THEN s
    ELSE ReplaceEach(IF Contains(s, Head(hardcoded))
                     THEN Replace(s, Head(hardcoded), value) ELSE s,
                     Tail(hardcoded), value)

\* the hardcoded names, companies and titles of new_text give way to the
\* firm details that were passed
FixHardcoded(mod, fd) ==
    LET Fix(s, hardcoded, value) ==
            IF value = <<>> THEN s ELSE ReplaceEach(s, hardcoded, value)
    IN IF mod.new_kind # "str" THEN mod
       ELSE [mod EXCEPT !.new_text =
               Fix(Fix(Fix(@, <<<<"J", "o", "h", "n", " ", "B", "a", "g", "g", "e">>, <<"J", "a", "n", "e", " ", "D", "o", "e">>>>, fd.signatory_name),
                       <<<<"J", "M", "C", " ", "I", "n", "v", "e", "s", "t", "m", "e", "n", "t", " ", "L", "L", "C">>, <<"W", "e", "l", "c", "h", " ", "C", "a", "p", "i", "t", "a", "l", " ", "P", "a", "r", "t", "n", "e", "r", "s">>>>, fd.firm_name),
                   <<<<"V", "i", "c", "e", " ", "P", "r", "e", "s", "i", "d", "e", "n", "t">>, <<"P", "r", "e", "s", "i", "d", "e", "n", "t">>, <<"C", "E", "O">>>>, fd.title)]

\* a modification analyze_document writes itself (origin 0)
Synthesized(section, current_text, new_text) ==
    [type |-> "TEXT_REPLACE", section |-> section,
     current_kind |-> "str", current_text |-> current_text,
     new_kind |-> "str", new_text |-> new_text, origin |-> 0]

\* Ensure "Dear NAME:" is replaced if it exists
EnsureDear(modifications, text, fd) ==
    IF /\ fd.signatory_name # <<>>
       /\ Contains(text, <<"D", "e", "a", "r", " ", "N", "A", "M", "E", ":">>)
       /\ ~ \E i \in 1..Len(modifications) :
               Strip(CurrentOf(modifications[i])) = <<"D", "e", "a", "r", " ", "N", "A", "M", "E", ":">>
    THEN <<Synthesized("recipient", <<"D", "e", "a", "r", " ", "N", "A", "M", "E", ":">>, <<"D", "e", "a", "r", " ">> \o fd.signatory_name \o <<":">>)>>
            \o modifications
    ELSE modifications

\* Ensure the "By:" / "Title:" field is filled: the full text with underscores
EnsureLabel(modifications, text, label, value) ==
    LET Ensure(full) ==
            IF full = <<>> THEN modifications
            ELSE IF \E i \in 1..Len(modifications) :
                       \/ Contains(CurrentOf(modifications[i]), full)
                       \/ /\ Contains(CurrentOf(modifications[i]), label)
                          /\ Contains(CurrentOf(modifications[i]), <<"_">>)
            THEN modifications
            ELSE Append(modifications,
                        Synthesized("signature_block", full, label \o <<" ">> \o value))
    IN IF value = <<>> THEN modifications ELSE Ensure(FirstLabelBlank(label, text))

\* Ensure the "For: Company" field is filled if it exists
EnsureFor(modifications, text, fd) ==
    IF /\ fd.firm_name # <<>>
       /\ \/ Contains(text, <<"F", "o", "r", ":", " ", "C", "o", "m", "p", "a", "n", "y">>)
          \/ Contains(text, <<"F", "o", "r", ":", "\t", "C", "o", "m", "p", "a", "n", "y">>)
          \/ Contains(text, <<"F", "o", "r", ":", " ", "\t", "C", "o", "m", "p", "a", "n", "y">>)
       /\ ~ \E i \in 1..Len(modifications) :
               /\ Contains(CurrentOf(modifications[i]), <<"F", "o", "r", ":">>)
               /\ Contains(CurrentOf(modifications[i]), <<"C", "o", "m", "p", "a", "n", "y">>)
               /\ Contains(NewOf(modifications[i]), fd.firm_name)
    THEN Append(modifications,
                Synthesized("signature_block", <<"F", "o", "r", ":", " ", "C", "o", "m", "p", "a", "n", "y">>, <<"F", "o", "r", ":", " ">> \o fd.firm_name))
    ELSE modifications

\* the block under "if firm_details:" (the dict after normalization)
PostProcess(modifications, text, details) ==
    LET fd == NormalizedFirmDetails(details)
        fixed == [i \in 1..Len(modifications) |->
                    FixHardcoded(ExpandLabels(modifications[i], text), fd)]
    IN IF fd.firm_name = <<>> /\ fd.signatory_name = <<>> /\ fd.title = <<>>
       THEN modifications
       ELSE EnsureFor(EnsureLabel(EnsureLabel(EnsureDear(fixed, text, fd),
                                              text, <<"B", "y", ":">>, fd.signatory_name),
                                  text, <<"T", "i", "t", "l", "e", ":">>, fd.title),
                      text, fd)

\* the decimal digits, DecimalDigits[d + 1] the digit of value d
DecimalDigits == <<"0", "1", "2", "3", "4", "5", "6", "7", "8", "9">>

\* int(s) of a string of digits
RECURSIVE DigitsToInt(_)
DigitsToInt(s) ==
    IF s = <<>> THEN 0
    ELSE 10 * DigitsToInt(SubSeq(s, 1, Len(s) - 1))
            + (CHOOSE d \in 0..9 : DecimalDigits[d + 1] = s[Len(s)])

\* str(n) of a natural number
RECURSIVE IntToStr(_)
IntToStr(n) ==
    IF n < 10 THEN <<DecimalDigits[n + 1]>>
    ELSE IntToStr(n \div 10) \o <<DecimalDigits[(n % 10) + 1]>>

\* target_years: group(1) of r'(\d+)\s*(?:\(\d+\))?\s*years?' (IGNORECASE) in
\* the instruction of the first duration rule where it matches, else 2.
\* The match starts at the leftmost position where the pattern matches with
\* or without its optional group, and group(1) is the run of digits there.
RECURSIVE TargetYears(_)
TargetYears(rules) ==
    IF rules = <<>> THEN 2
    ELSE LET rule_name == Lower(Head(rules).name)
             instruction == Head(rules).instruction
             Years(group) ==
                 <<Rep("digit", <<>>, 1, -1), Rep("space", <<>>, 0, -1)>> \o group
                    \o <<Rep("space", <<>>, 0, -1), Lit(<<"y", "e", "a", "r">>), Rep("char", <<"s">>, 0, 1)>>
             Group1(starts) ==
                 IF starts = {} THEN TargetYears(Tail(rules))
                 ELSE LET At(i) ==
                             DigitsToInt(Slice(instruction, i,
                                 ReMatch(<<Rep("digit", <<>>, 1, -1)>>, 1, instruction, i, FALSE) - 1))
                      IN At(CHOOSE i \in starts : \A j \in starts : i <= j)
         IN IF \/ Contains(rule_name, <<"d", "u", "r", "a", "t", "i", "o", "n">>)
               \/ Contains(rule_name, <<"t", "e", "r", "m">>)
               \/ Contains(rule_name, <<"c", "o", "n", "f", "i", "d", "e", "n", "t", "i", "a", "l", "i", "t", "y">>)
            THEN Group1({i \in 1..Len(instruction) :
                           \/ ReMatch(Years(<<Lit(<<"(">>), Rep("digit", <<>>, 1, -1), Lit(<<")">>)>>),
                                      1, instruction, i, TRUE) # -1
                           \/ ReMatch(Years(<<>>), 1, instruction, i, TRUE) # -1})
            ELSE TargetYears(Tail(rules))

\* doc_already_has_target: the document holds the target duration, as a
\* numeral (plural or singular) or, from one to ten, as a word
DocAlreadyHasTarget(text, target_years) ==
    LET n == IntToStr(target_years)
        words == <<<<"o", "n", "e">>, <<"t", "w", "o">>, <<"t", "h", "r", "e", "e">>, <<"f", "o", "u", "r">>, <<"f", "i", "v", "e">>, <<"s", "i", "x">>, <<"s", "e", "v", "e", "n">>, <<"e", "i", "g", "h", "t">>,
                   <<"n", "i", "n", "e">>, <<"t", "e", "n">>>>
        numerals == {n \o <<" ", "(">> \o n \o <<")", " ", "y", "e", "a", "r", "s">>, n \o <<" ", "y", "e", "a", "r", "s">>,
                     n \o <<" ", "(">> \o n \o <<")", " ", "y", "e", "a", "r">>, n \o <<" ", "y", "e", "a", "r">>}
        spelled == IF target_years \in 1..10
                   THEN {words[target_years] \o <<" ", "(">> \o n \o <<")", " ", "y", "e", "a", "r", "s">>,
                         words[target_years] \o <<" ", "y", "e", "a", "r", "s">>}
                   ELSE {}
    IN \E pattern \in numerals \cup spelled : Contains(Lower(text), Lower(pattern))

\* what the list comprehension under doc_already_has_target leaves out
DuplicateOfTarget(mod, target_years) ==
    LET n == IntToStr(target_years) IN
    /\ mod.section = "term"
    /\ \/ Contains(Lower(NewOf(mod)), Lower(n \o <<" ", "(">> \o n \o <<")", " ", "y", "e", "a", "r", "s">>))
       \/ Contains(Lower(NewOf(mod)), Lower(n \o <<" ", "y", "e", "a", "r", "s">>))

\* the duration block: duplicates of the target go when the document has it
\* already, else a "three years" term gets its modification
AdjustDuration(modifications, text, target_years) ==
    LET n == IntToStr(target_years)
        Term(current_text) ==
            Append(modifications,
                   Synthesized("term", current_text, n \o <<" ", "(">> \o n \o <<")", " ", "y", "e", "a", "r", "s">>))
    IN IF DocAlreadyHasTarget(text, target_years)
       THEN SelectSeq(modifications, LAMBDA mod : ~ DuplicateOfTarget(mod, target_years))
       ELSE IF /\ Contains(Lower(text), <<"t", "h", "r", "e", "e", " ", "y", "e", "a", "r", "s">>)
               /\ ~ \E i \in 1..Len(modifications) :
                       \/ Contains(Lower(CurrentOf(modifications[i])), <<"t", "h", "r", "e", "e", " ", "y", "e", "a", "r", "s">>)
                       \/ Contains(Lower(CurrentOf(modifications[i])), <<"t", "h", "r", "e", "e", " ", "(", "3", ")", " ", "y", "e", "a", "r", "s">>)
       THEN IF Contains(text, <<"t", "h", "r", "e", "e", " ", "y", "e", "a", "r", "s">>) THEN Term(<<"t", "h", "r", "e", "e", " ", "y", "e", "a", "r", "s">>)
            ELSE IF Contains(text, <<"t", "h", "r", "e", "e", " ", "(", "3", ")", " ", "y", "e", "a", "r", "s">>) THEN Term(<<"t", "h", "r", "e", "e", " ", "(", "3", ")", " ", "y", "e", "a", "r", "s">>)
            ELSE modifications
       ELSE modifications

\* today.strftime("%B %d, %Y") on the day of the run
TodayFormatted == <<"N", "o", "v", "e", "m", "b", "e", "r", " ", "0", "5", ",", " ", "2", "0", "2", "6">>

\* flexible_date_patterns: the compiled pattern and the replacement text
FlexibleDatePatterns ==
    <<[pat |-> <<Rep("alpha", <<>>, 1, -1), Lit(<<" ">>), Rep("char", <<"_">>, 2, -1), Lit(<<",", " ">>),
                 Rep("digit", <<>>, 4, 4)>>,
       new |-> TodayFormatted],
      [pat |-> <<Lit(<<"D", "a", "t", "e", ":">>), Rep("space", <<>>, 0, -1), Rep("char", <<"_">>, 1, -1)>>,
       new |-> <<"D", "a", "t", "e", ":", " ">> \o TodayFormatted],
      [pat |-> <<Lit(<<"D", "a", "t", "e", "d", ":">>), Rep("space", <<>>, 0, -1), Rep("char", <<"_">>, 1, -1)>>,
       new |-> <<"D", "a", "t", "e", "d", ":", " ">> \o TodayFormatted],
      [pat |-> <<Lit(<<"[", "D", "A", "T", "E", "]">>)>>, new |-> TodayFormatted],
      [pat |-> <<Lit(<<"[", "d", "a", "t", "e", "]">>)>>, new |-> TodayFormatted],
      [pat |-> <<Lit(<<"(", "D", "A", "T", "E", ")">>)>>, new |-> TodayFormatted],
      [pat |-> <<Lit(<<"(", "d", "a", "t", "e", ")">>)>>, new |-> TodayFormatted],
      [pat |-> <<Lit(<<"[", "I", "n", "s", "e", "r", "t", " ", "d", "a", "t", "e", "]">>)>>, new |-> TodayFormatted],
      [pat |-> <<Lit(<<"[", "E", "n", "t", "e", "r", " ", "d", "a", "t", "e", "]">>)>>, new |-> TodayFormatted],
      [pat |-> <<Lit(<<"[", "i", "n", "s", "e", "r", "t", " ", "d", "a", "t", "e", "]">>)>>, new |-> TodayFormatted],
      [pat |-> <<Rep("alpha", <<>>, 1, -1), Rep("space", <<>>, 1, -1),
                 Rep("char", <<"_">>, 2, -1), Rep("space", <<>>, 0, -1), Lit(<<",">>),
                 Rep("space", <<>>, 0, -1), Rep("digit", <<>>, 4, 4)>>,
       new |-> TodayFormatted]>>

\* the loop over the matches of one date pattern: a match no modification
\* covers gets one, at the head of the list for the header pattern and at
\* its end for a flexible pattern
RECURSIVE EnsureDates(_, _, _, _)
EnsureDates(modifications, matches, new_text, header) ==
    IF matches = <<>> THEN modifications
    ELSE LET match_text == Head(matches)
             Covers(mod) ==
                 IF header THEN Contains(CurrentOf(mod), match_text)
                 ELSE \/ Contains(Lower(CurrentOf(mod)), Lower(match_text))
                      \/ Contains(Lower(SubWs(CurrentOf(mod), <<" ">>)),
                                  Lower(SubWs(match_text, <<" ">>)))
         IN EnsureDates(
                IF \E i \in 1..Len(modifications) : Covers(modifications[i])
                THEN modifications
                ELSE IF header
                THEN <<Synthesized("header", match_text, new_text)>> \o modifications
                ELSE Append(modifications, Synthesized("date", match_text, new_text)),
                Tail(matches), new_text, header)

\* the date auto-fix: the header pattern r'([A-Z][a-z]+ _{2,}, \d{4})', then
\* the flexible patterns from the k-th on, each with re.IGNORECASE
RECURSIVE AutoFixDates(_, _, _)
AutoFixDates(modifications, text, k) ==
    IF k = 0
    THEN AutoFixDates(
            EnsureDates(modifications,
                        ReFindAll(<<Rep("upper", <<>>, 1, 1), Rep("lower", <<>>, 1, -1), Lit(<<" ">>),
                                    Rep("char", <<"_">>, 2, -1), Lit(<<",", " ">>),
                                    Rep("digit", <<>>, 4, 4)>>, text, 1, FALSE),
                        TodayFormatted, TRUE),
            text, 1)
    ELSE IF k > Len(FlexibleDatePatterns) THEN modifications
    ELSE AutoFixDates(
            EnsureDates(modifications,
                        ReFindAll(FlexibleDatePatterns[k].pat, text, 1, TRUE),
                        FlexibleDatePatterns[k].new, FALSE),
            text, k + 1)

(***************************************************************************)
(* Inputs                                                                  *)
(***************************************************************************)

\* Bounds of the inputs drawn in the initial states.
MaxParas == 2
MaxMods == 2
MaxCells == 1

\* every sequence over S of length at most n
SeqsUpTo(S, n) == UNION {[1..k -> S] : k \in 0..n}

\* a change / modification dict; current_kind tells whether current_text is
\* a str, null, or a missing key
Mod(type, status, old, new) ==
    [type |-> type, status |-> status, current_kind |-> "str",
     current_text |-> old, new_text |-> new]
NullCurrent(m) == [m EXCEPT !.current_kind = "null", !.current_text = <<>>]
MissingCurrent(m) == [m EXCEPT !.current_kind = "missing", !.current_text = <<>>]

NoResult == [success |-> FALSE, output |-> FALSE, applied |-> 0]

\* number of rows of the document table
MaxDocuments == 2
DocumentIds == 1..MaxDocuments

\* the users require_auth knows ('1' and '2' in documents.py, the rows of
\* the user table in changes.py), and the values the X-User-ID header takes
Users == {1, 2}
HeaderUserIds == Users \cup {3}

\* Document.query.get(document_id) of an id without a row
NoDocument ==
    [present |-> FALSE, user_id |-> 0, status |-> "", output_path |-> "",
     error_message |-> ""]

\* document.file_path, the output path of DocumentProcessor and the output
\* path of AIRedliningService for the document with id d
FilePath(d) == <<"uploads/1.docx", "uploads/2.docx">>[d]
OutputPath(d) == <<"outputs/1_redlined.docx", "outputs/2_redlined.docx">>[d]
FinalPath(d) == <<"outputs/1_final.docx", "outputs/2_final.docx">>[d]

\* no process_document call is between its two commits
NoRequest ==
    [route |-> "none", user_id |-> 0, document_id |-> 0, record |-> NoDocument,
     files |-> {}]

\* nothing has been answered yet
NoResponse ==
    [route |-> "none", user_id |-> 0, document_id |-> 0, code |-> 0,
     record |-> NoDocument, files |-> {}]

\* the routes are not part of the run
NoRoutes ==
    /\ documents = <<>>
    /\ files = {}
    /\ request = NoRequest
    /\ response = NoResponse

\* analyze_document called without firm details
NoFirmDetails == [name |-> <<>>, signerName |-> <<>>, signerTitle |-> <<>>]

\* one entry of the planner's "modifications" array; current_kind and
\* new_kind tell whether the text is a str, null, or a missing key
Planned(section, old, new) ==
    [type |-> "TEXT_REPLACE", section |-> section,
     current_kind |-> "str", current_text |-> old,
     new_kind |-> "str", new_text |-> new]

\* the document texts analyze_document is called on
DocumentTexts ==
    {<<"b", "u", "s", "i", "n", "e", "s", "s", " ", "(", "t", "h", "e", " ", "\"", "C", "o", "m", "p", "a", "n", "y", "\"", ")">>,
     <<"F", "o", "r", ":", " ", "C", "o", "m", "p", "a", "n", "y", "\n", "B", "y", ":", " ", "_", "_", "_", "_", "\n", "T", "i", "t", "l", "e", ":", "\t", "_", "_", "_">>,
     <<"a", " ", "t", "e", "r", "m", " ", "o", "f", " ", "t", "w", "o", " ", "(", "2", ")", " ", "y", "e", "a", "r", "s">>,
     <<"D", "e", "a", "r", " ", "N", "A", "M", "E", ":", "\n", "a", " ", "t", "e", "r", "m", " ", "o", "f", " ", "t", "h", "r", "e", "e", " ", "y", "e", "a", "r", "s">>,
     <<"O", "c", "t", "o", "b", "e", "r", " ", "_", "_", ",", " ", "2", "0", "2", "5", "\n", "V", "e", "r", "y", " ", "t", "r", "u", "l", "y", " ", "y", "o", "u", "r", "s", ",">>,
     <<"D", "a", "t", "e", ":", " ", "_", "_", "_", "_", "\n", "[", "D", "A", "T", "E", "]">>}

\* the firm details analyze_document is called with
FirmDetailsGiven ==
    {NoFirmDetails,
     [name |-> <<"A", "c", "m", "e", " ", "L", "L", "C">>, signerName |-> <<"A", "n", "n", " ", "L", "e", "e">>, signerTitle |-> <<"C", "F", "O">>],
     [name |-> <<"A", "c", "m", "e", " ", "L", "L", "C">>, signerName |-> <<>>, signerTitle |-> <<>>]}

\* the custom rules analyze_document is called with
RuleSets ==
    {<<>>, <<[name |-> <<"T", "e", "r", "m">>, instruction |-> <<"U", "s", "e", " ", "5", " ", "(", "5", ")", " ", "y", "e", "a", "r", "s">>]>>}

\* the entries the planner answers with
PlannerEntries ==
    {Planned("parties", <<"C", "o", "m", "p", "a", "n", "y">>, <<"A", "c", "m", "e", " ", "L", "L", "C">>),
     Planned("parties", <<"b", "u", "s", "i", "n", "e", "s", "s", " ", "(", "t", "h", "e", " ", "\"", "C", "o", "m", "p", "a", "n", "y", "\"", ")">>, <<"b", "u", "s", "i", "n", "e", "s", "s", " ", "(", "A", "c", "m", "e", " ", "L", "L", "C", ")">>),
     Planned("signature_block", <<"F", "o", "r", ":", " ", "C", "o", "m", "p", "a", "n", "y">>, <<"F", "o", "r", ":", " ", "W", "e", "l", "c", "h", " ", "C", "a", "p", "i", "t", "a", "l", " ", "P", "a", "r", "t", "n", "e", "r", "s">>),
     Planned("signature_block", <<"F", "o", "r", ":", " ", "C", "o", "m", "p", "a", "n", "y">>, <<"F", "o", "r", ":", " ", "A", "C", "M", "E", " ", "L", "L", "C">>),
     Planned("signature_block", <<"B", "y", ":">>, <<"B", "y", ":", " ", "J", "o", "h", "n", " ", "B", "a", "g", "g", "e">>),
     Planned("term", <<"t", "h", "r", "e", "e", " ", "y", "e", "a", "r", "s">>, <<"t", "w", "o", " ", "(", "2", ")", " ", "y", "e", "a", "r", "s">>),
     Planned("term", <<"t", "h", "r", "e", "e", " ", "y", "e", "a", "r", "s">>, <<"2", " ", "(", "2", ")", " ", "y", "e", "a", "r", "s">>),
     Planned("closing", <<"V", "e", "r", "y", " ", "t", "r", "u", "l", "y", " ", "y", "o", "u", "r", "s", ",">>, <<"M", "a", "y", " ", "1", ",", " ", "2", "0", "2", "6">>),
     Planned("header", <<"N", "o", "n", "d", "i", "s", "c", "l", "o", "s", "u", "r", "e", " ", "A", "g", "r", "e", "e", "m", "e", "n", "t">>, <<"M", "a", "y", " ", "1", ",", " ", "2", "0", "2", "6">>),
     [Planned("parties", <<>>, <<"A", "c", "m", "e", " ", "L", "L", "C">>) EXCEPT !.current_kind = "null"],
     [Planned("parties", <<"C", "o", "m", "p", "a", "n", "y">>, <<>>) EXCEPT !.new_kind = "missing"]}

T_TwoYears == <<"t","w","o"," ","(","2",")"," ","y","e","a","r","s">>
T_Five == <<"f","i","v","e"," ">>
T_YearsOrFive == <<"y","e","a","r","s"," ","o","r"," ","f","i","v","e"," ">>
T_TenYears == <<"t","e","n"," ","y","e","a","r","s">>
T_ForAcme == <<"F","o","r",":"," ","A","c","m","e">>
T_Term == <<"T","e","r","m",":"," ">>
T_TermLabel == <<"T","e","r","m",":">>
T_Duration == <<"D","u","r","a","t","i","o","n",":">>
T_FiveYearsOr == <<"f","i","v","e"," ","y","e","a","r","s"," ","o","r"," ">>
T_ForCompanyFiveTabYears ==
    <<"F","o","r",":"," ","C","o","m","p","a","n","y",","," ","f","i","v","e","\t","y","e","a","r","s">>
T_SignedBlank == <<"S","i","g","n","e","d",":"," ","_","_","_">>

\* paragraphs a reviewed document is made of
ReviewParas ==
    { <<BoldRun(T_Term), PlainRun(S_fiveyears)>>,
      <<PlainRun(T_FiveYearsOr), ItalicRun(S_fiveyears)>>,
      <<PlainRun(S_ForCompany)>>,
      <<PlainRun(S_ForTabCompany)>>,
      <<PlainRun(T_SignedBlank)>>,
      <<PlainRun(S_SIGNATURE)>> }

\* paragraphs a table cell of the document holds
CellParas == { <<PlainRun(S_fiveyears)>> }

\* entries of accepted_changes
ReviewChanges ==
    { Mod("TEXT_REPLACE", "accepted", S_fiveyears, T_TwoYears),
      Mod("TEXT_REPLACE", "pending", S_fiveyears, T_TwoYears),
      Mod("TEXT_REPLACE", "accepted", T_TermLabel, T_Duration),
      Mod("TEXT_REPLACE", "accepted", S_ForCompany, T_ForAcme),
      Mod("TEXT_REPLACE", "accepted", S_ForTabCompany, T_ForAcme),
      Mod("TEXT_REPLACE", "rejected", S_ForCompany, T_ForAcme),
      NullCurrent(Mod("TEXT_REPLACE", "pending", <<>>, T_ForAcme)),
      NullCurrent(Mod("TEXT_REPLACE", "accepted", <<>>, T_ForAcme)),
      MissingCurrent(Mod("TEXT_INSERT", "accepted", <<>>, T_Duration)) }

\* a change that anything but its own status would let through
IsAcceptedOrPending(change) == change.status \in {"accepted", "pending"}

\* change.get("status") == "accepted"
IsAccepted(change) == change.status = "accepted"

(***************************************************************************)
(* AIRedliningService.apply_accepted_changes                               *)
(***************************************************************************)

InitReview ==
    /\ engine = "review"
    /\ doc0 \in SeqsUpTo(ReviewParas, MaxParas)
    /\ doc = doc0
    /\ prevDoc = doc0
    /\ cells \in SeqsUpTo(CellParas, MaxCells)
    /\ prevCells = cells
    /\ mods \in SeqsUpTo(ReviewChanges, MaxMods)
    /\ idx = 0
    /\ outcomes = <<>>
    /\ native = TRUE
    /\ sig = FALSE
    /\ applied = 0
    /\ phase = "apply"
    /\ result = NoResult
    /\ document_text = <<>>
    /\ custom_rules = <<>>
    /\ firm_details = NoFirmDetails
    /\ ai_response = <<>>
    /\ flagged = {}
    /\ NoRoutes

\* one iteration of the loop over accepted_changes
ReviewApplyChange ==
    /\ engine = "review"
    /\ phase = "apply"
    /\ idx < Len(mods)
    /\ LET c == mods[idx + 1] IN
       /\ idx' = idx + 1
       /\ prevDoc' = doc
       /\ \/ \* status is not "accepted": the change is passed over
             /\ ~ IsAccepted(c)
             /\ outcomes' = Append(outcomes, "ignored")
             /\ UNCHANGED <<doc, applied, phase, result>>
          \/ \* change.get('current_text', '')[:80] of a null: TypeError, caught
             \* by the except of apply_accepted_changes
             /\ IsAccepted(c)
             /\ c.current_kind = "null"
             /\ outcomes' = Append(outcomes, "error")
             /\ phase' = "done"
             /\ result' = [success |-> FALSE, output |-> FALSE, applied |-> 0]
             /\ UNCHANGED <<doc, applied>>
          \/ /\ IsAccepted(c)
             /\ c.current_kind # "null"
             /\ LET r == ApplySingleChange(doc, c) IN
                /\ doc' = r.doc
                /\ outcomes' = Append(outcomes, r.why)
                /\ applied' = IF r.ok THEN applied + 1 ELSE applied
             /\ UNCHANGED <<phase, result>>
    /\ UNCHANGED <<routes, analysis, engine, doc0, cells, prevCells, mods, native, sig>>

\* after the loop: signature, output path, save, return
ReviewReturn ==
    /\ engine = "review"
    /\ phase = "apply"
    /\ idx = Len(mods)
    /\ sig' \in BOOLEAN
    /\ doc' = IF sig' THEN ReviewApplySignature(doc) ELSE doc
    /\ phase' = "done"
    /\ result' = [success |-> TRUE, output |-> TRUE, applied |-> applied]
    /\ UNCHANGED <<routes, analysis, engine, doc0, cells, prevCells, mods, idx, prevDoc, outcomes, native, applied>>

NextReview == ReviewApplyChange \/ ReviewReturn

SpecReview == InitReview /\ [][NextReview]_vars

(***************************************************************************)
(* DocumentProcessor.process_document from the modification list on        *)
(***************************************************************************)

\* paragraphs a batch-processed document is made of
BatchParas ==
    { <<BoldRun(T_Term), PlainRun(S_fiveyears)>>,
      <<PlainRun(T_Five), PlainRun(T_YearsOrFive), ItalicRun(S_years)>>,
      <<PlainRun(S_ForTabCompany)>>,
      <<PlainRun(T_ForCompanyFiveTabYears)>>,
      <<PlainRun(T_SignedBlank)>> }

\* entries of the modification list analyze_document returned
BatchMods ==
    { Mod("TEXT_REPLACE", "", S_fiveyears, T_TwoYears),
      Mod("TEXT_REPLACE", "", T_TenYears, T_TwoYears),
      Mod("TEXT_REPLACE", "", S_ForCompany, T_ForAcme),
      Mod("TEXT_DELETE", "", T_Term, <<>>),
      Mod("CLAUSE_ADD", "", <<>>, T_Duration),
      Mod("TEXT_INSERT", "", <<>>, T_TwoYears),
      Mod("TEXT_REPLACE", "", <<>>, S_5),
      Mod("TEXT_REPLACE", "", S_fiveyears, <<>>),
      MissingCurrent(Mod("TEXT_REPLACE", "", <<>>, T_Duration)) }

InitBatch ==
    /\ engine \in {"batch", "chunked"}
    /\ doc0 \in SeqsUpTo(BatchParas, MaxParas)
    /\ doc = doc0
    /\ prevDoc = doc0
    /\ cells \in SeqsUpTo(CellParas, MaxCells)
    /\ prevCells = cells
    /\ mods \in SeqsUpTo(BatchMods, MaxMods)
    /\ idx = 0
    /\ outcomes = <<>>
    /\ native \in BOOLEAN
    /\ sig = FALSE
    /\ applied = 0
    /\ phase = "apply"
    /\ result = NoResult
    /\ document_text = <<>>
    /\ custom_rules = <<>>
    /\ firm_details = NoFirmDetails
    /\ ai_response = <<>>
    /\ flagged = {}
    /\ NoRoutes

\* one iteration of the loop of _apply_modifications
BatchApplyModification ==
    /\ engine = "batch"
    /\ phase = "apply"
    /\ idx < Len(mods)
    /\ LET Step(r) == /\ doc' = r.doc
                       /\ outcomes' = Append(outcomes, r.why)
       IN Step(DPApplyModification(doc, mods[idx + 1], FALSE, native))
    /\ idx' = idx + 1
    /\ prevDoc' = doc
    /\ UNCHANGED <<routes, analysis, engine, doc0, cells, prevCells, mods, native, sig, applied, phase, result>>

\* one iteration of the loop of _apply_modifications_chunked
ChunkedApplyModification ==
    /\ engine = "chunked"
    /\ phase = "apply"
    /\ idx < Len(mods)
    /\ LET Step(r) == /\ doc' = r.doc
                       /\ outcomes' = Append(outcomes, r.why)
       IN Step(DPApplyModification(doc, mods[idx + 1], TRUE, native))
    /\ idx' = idx + 1
    /\ prevDoc' = doc
    /\ UNCHANGED <<routes, analysis, engine, doc0, cells, prevCells, mods, native, sig, applied, phase, result>>

\* _process_small_document / _process_large_document after the loop: firm
\* details, signature, save, return with modifications_applied =
\* len(modifications)
BatchReturn ==
    /\ engine \in {"batch", "chunked"}
    /\ phase = "apply"
    /\ idx = Len(mods)
    /\ sig' \in BOOLEAN
    /\ LET filled == DPApplyFirmDetails(doc, FirmDetails) IN
       doc' = IF sig' THEN DPApplySignature(filled) ELSE filled
    /\ phase' = "done"
    /\ result' = [success |-> TRUE, output |-> TRUE, applied |-> Len(mods)]
    /\ UNCHANGED <<routes, analysis, engine, doc0, cells, prevCells, mods, idx, prevDoc, outcomes, native, applied>>

NextBatch == BatchApplyModification \/ ChunkedApplyModification \/ BatchReturn

SpecBatch == InitBatch /\ [][NextBatch]_vars

(***************************************************************************)
(* DocumentProcessor.apply_accepted_changes                                *)
(***************************************************************************)

\* body paragraphs of a document whose accepted changes are applied
AcceptedParas ==
    { <<PlainRun(S_ForTabCompany)>>,
      <<PlainRun(S_ForCompany)>>,
      <<BoldRun(T_Term), PlainRun(S_fiveyears)>>,
      <<PlainRun(T_SignedBlank)>> }

\* entries of accepted_changes
AcceptedChanges ==
    { Mod("TEXT_REPLACE", "accepted", S_fiveyears, T_TwoYears),
      Mod("TEXT_REPLACE", "accepted", S_ForCompany, T_ForAcme),
      Mod("TEXT_REPLACE", "accepted", T_TermLabel, T_Duration),
      NullCurrent(Mod("TEXT_REPLACE", "accepted", <<>>, T_ForAcme)) }

InitAccepted ==
    /\ engine = "accepted"
    /\ doc0 \in SeqsUpTo(AcceptedParas, MaxParas)
    /\ doc = doc0
    /\ prevDoc = doc0
    /\ cells \in SeqsUpTo(CellParas, MaxCells)
    /\ prevCells = cells
    /\ mods \in SeqsUpTo(AcceptedChanges, MaxMods)
    /\ idx = 0
    /\ outcomes = <<>>
    /\ native \in BOOLEAN
    /\ sig = FALSE
    /\ applied = 0
    /\ phase = "apply"
    /\ result = NoResult
    /\ document_text = <<>>
    /\ custom_rules = <<>>
    /\ firm_details = NoFirmDetails
    /\ ai_response = <<>>
    /\ flagged = {}
    /\ NoRoutes

\* one iteration of the loop over accepted_changes
AcceptedApplyChange ==
    /\ engine = "accepted"
    /\ phase = "apply"
    /\ idx < Len(mods)
    /\ LET Step(r) == /\ doc' = r.doc
                       /\ cells' = r.cells
                       /\ outcomes' = Append(outcomes, r.why)
       IN Step(DPApplyAcceptedChange(doc, cells, mods[idx + 1], native))
    /\ idx' = idx + 1
    /\ prevDoc' = doc
    /\ prevCells' = cells
    /\ UNCHANGED <<routes, analysis, engine, doc0, mods, native, sig, applied, phase, result>>

\* after the loop: signature, output path, save, return
AcceptedReturn ==
    /\ engine = "accepted"
    /\ phase = "apply"
    /\ idx = Len(mods)
    /\ sig' \in BOOLEAN
    /\ doc' = IF sig' THEN DPInsertSignature(doc, 1) ELSE doc
    /\ phase' = "done"
    /\ result' = [success |-> TRUE, output |-> TRUE, applied |-> Len(mods)]
    /\ UNCHANGED <<routes, analysis, engine, doc0, cells, prevCells, mods, idx, prevDoc, outcomes, native,
                   applied>>

NextAccepted == AcceptedApplyChange \/ AcceptedReturn

SpecAccepted == InitAccepted /\ [][NextAccepted]_vars

(***************************************************************************)
(* AIRedliningService.analyze_document with a planner that answered        *)
(***************************************************************************)

InitAnalyze ==
    /\ engine = "analyze"
    /\ doc0 = <<>>
    /\ doc = <<>>
    /\ prevDoc = <<>>
    /\ cells = <<>>
    /\ prevCells = <<>>
    /\ mods = <<>>
    /\ idx = 0
    /\ outcomes = <<>>
    /\ native = TRUE
    /\ sig = FALSE
    /\ applied = 0
    /\ phase = "parse"
    /\ result = NoResult
    /\ document_text \in DocumentTexts
    /\ custom_rules \in RuleSets
    /\ firm_details \in FirmDetailsGiven
    /\ ai_response \in SeqsUpTo(PlannerEntries, MaxMods)
    /\ flagged = {}
    /\ NoRoutes

\* modifications = self._parse_ai_response(ai_response)
AnalyzeParse ==
    /\ engine = "analyze"
    /\ phase = "parse"
    /\ mods' = ParseAIResponse(ai_response)
    /\ phase' = "validate"
    /\ UNCHANGED <<routes, engine, doc0, doc, cells, idx, prevDoc, prevCells, outcomes, native,
                   sig, applied, result, analysis>>

\* the validation loop and the removal of what it collected
AnalyzeValidate ==
    /\ engine = "analyze"
    /\ phase = "validate"
    /\ LET Go(invalid) ==
            /\ mods' = RemoveInvalid(mods, invalid)
            /\ flagged' = flagged \cup {mods[invalid[k]].origin : k \in 1..Len(invalid)}
       IN Go(InvalidModifications(mods))
    /\ phase' = "firm"
    /\ UNCHANGED <<routes, engine, doc0, doc, cells, idx, prevDoc, prevCells, outcomes, native,
                   sig, applied, result, document_text, custom_rules, firm_details,
                   ai_response>>

\* the block under "if firm_details:"
AnalyzeFirmDetails ==
    /\ engine = "analyze"
    /\ phase = "firm"
    /\ mods' = PostProcess(mods, document_text, firm_details)
    /\ phase' = "duration"
    /\ UNCHANGED <<routes, engine, doc0, doc, cells, idx, prevDoc, prevCells, outcomes, native,
                   sig, applied, result, analysis>>

\* the target duration and the modifications of the term
AnalyzeDuration ==
    /\ engine = "analyze"
    /\ phase = "duration"
    /\ LET Go(target_years) ==
            /\ mods' = AdjustDuration(mods, document_text, target_years)
            /\ flagged' = flagged \cup
                  IF DocAlreadyHasTarget(document_text, target_years)
                  THEN {mods[i].origin : i \in {j \in 1..Len(mods) :
                                                  DuplicateOfTarget(mods[j], target_years)}}
                  ELSE {}
       IN Go(TargetYears(custom_rules))
    /\ phase' = "dates"
    /\ UNCHANGED <<routes, engine, doc0, doc, cells, idx, prevDoc, prevCells, outcomes, native,
                   sig, applied, result, document_text, custom_rules, firm_details,
                   ai_response>>

\* the date auto-fix, and the return of the list
AnalyzeReturn ==
    /\ engine = "analyze"
    /\ phase = "dates"
    /\ mods' = AutoFixDates(mods, document_text, 0)
    /\ result' = [NoResult EXCEPT !.success = TRUE]
    /\ phase' = "done"
    /\ UNCHANGED <<routes, engine, doc0, doc, cells, idx, prevDoc, prevCells, outcomes, native,
                   sig, applied, analysis>>

NextAnalyze ==
    AnalyzeParse \/ AnalyzeValidate \/ AnalyzeFirmDetails \/ AnalyzeDuration \/ AnalyzeReturn

SpecAnalyze == InitAnalyze /\ [][NextAnalyze]_vars

(***************************************************************************)
(* The routes of documents.py and changes.py                               *)
(***************************************************************************)

\* what the routes leave alone
editing == <<engine, doc0, doc, cells, mods, idx, prevDoc, prevCells, outcomes, native,
             sig, applied, phase, result>>

\* a response of route to user u about document d with status code, and
\* the row and the files the route found when it was called
Responded(route, u, d, code, record, found) ==
    [route |-> route, user_id |-> u, document_id |-> d, code |-> code,
     record |-> record, files |-> found]

\* the table after upload_document has stored documents of the users; a
\* file may have gone from disk since
InitRoutes ==
    /\ engine = "routes"
    /\ doc0 = <<>>
    /\ doc = <<>>
    /\ prevDoc = <<>>
    /\ cells = <<>>
    /\ prevCells = <<>>
    /\ mods = <<>>
    /\ idx = 0
    /\ outcomes = <<>>
    /\ native = FALSE
    /\ sig = FALSE
    /\ applied = 0
    /\ phase = "idle"
    /\ result = NoResult
    /\ document_text = <<>>
    /\ custom_rules = <<>>
    /\ firm_details = NoFirmDetails
    /\ ai_response = <<>>
    /\ flagged = {}
    /\ documents \in [DocumentIds ->
            {[present |-> TRUE, user_id |-> u, status |-> "uploaded",
              output_path |-> "", error_message |-> ""] : u \in Users}]
    /\ files \in SUBSET {FilePath(d) : d \in DocumentIds}
    /\ request = NoRequest
    /\ response = NoResponse

\* process_document up to the commit of 'processing': require_auth, the
\* existence and ownership checks, the request body.  request.get_json() of
\* a JSON array is a list, and data.get raises AttributeError outside the
\* try: the request ends with status 500
ProcessDocument ==
    /\ engine = "routes"
    /\ request = NoRequest
    /\ \E u \in HeaderUserIds, d \in DocumentIds, body \in {"object", "array"} :
        LET document == documents[d]
            Return(code) ==
                /\ response' = Responded("process", u, d, code, document, files)
                /\ UNCHANGED <<documents, files, request>>
        IN  IF u \notin Users THEN Return(401)
            ELSE IF ~ document.present THEN Return(404)
            ELSE IF document.user_id # u THEN Return(403)
            ELSE IF body = "array" THEN Return(500)
            ELSE /\ documents' = [documents EXCEPT ![d].status = "processing"]
                 /\ request' = [route |-> "process", user_id |-> u, document_id |-> d,
                                record |-> document, files |-> files]
                 /\ UNCHANGED <<files, response>>
    /\ UNCHANGED <<editing, analysis>>

\* process_document from the try on: the file checks, DocumentProcessor's
\* process_document, and the commit of 'completed' or, in the except, of
\* 'error'
ProcessDocumentReturn ==
    /\ engine = "routes"
    /\ request.route = "process"
    /\ LET d == request.document_id
           Return(code) ==
                response' = Responded("process", request.user_id, d, code,
                                      request.record, request.files)
           Raise(e) ==
                /\ documents' = [documents EXCEPT ![d].status = "error",
                                                  ![d].error_message = e]
                /\ files' = files
                /\ Return(500)
       IN  \/ /\ FilePath(d) \notin files
              /\ Raise("Document file not found")
           \/ /\ FilePath(d) \in files
              /\ \E e \in {"Document file is empty", "Invalid .docx file",
                           "Document processing failed"} : Raise(e)
           \/ /\ FilePath(d) \in files
              /\ documents' = [documents EXCEPT ![d].status = "completed",
                                                ![d].output_path = OutputPath(d)]
              /\ files' = files \cup {OutputPath(d)}
              /\ Return(200)
    /\ request' = NoRequest
    /\ UNCHANGED <<editing, analysis>>

\* download_document
DownloadDocument ==
    /\ engine = "routes"
    /\ request = NoRequest
    /\ \E u \in HeaderUserIds, d \in DocumentIds :
        LET document == documents[d]
            Return(code) == response' = Responded("download", u, d, code, document, files)
        IN  IF u \notin Users THEN Return(401)
            ELSE IF ~ document.present THEN Return(404)
            ELSE IF document.user_id # u THEN Return(403)
            ELSE IF document.output_path = "" \/ document.output_path \notin files
                 THEN Return(404)
            ELSE Return(200)
    /\ UNCHANGED <<documents, files, request, editing, analysis>>

\* get_document
GetDocument ==
    /\ engine = "routes"
    /\ request = NoRequest
    /\ \E u \in HeaderUserIds, d \in DocumentIds :
        LET document == documents[d]
            Return(code) == response' = Responded("get", u, d, code, document, files)
        IN  IF u \notin Users THEN Return(401)
            ELSE IF ~ document.present THEN Return(404)
            ELSE IF document.user_id # u THEN Return(403)
            ELSE Return(200)
    /\ UNCHANGED <<documents, files, request, editing, analysis>>

\* delete_document: the file, the output file if there is one, the row
DeleteDocument ==
    /\ engine = "routes"
    /\ request = NoRequest
    /\ \E u \in HeaderUserIds, d \in DocumentIds :
        LET document == documents[d]
            Return(code) == response' = Responded("delete", u, d, code, document, files)
            Reject(code) == Return(code) /\ UNCHANGED <<documents, files>>
        IN  IF u \notin Users THEN Reject(401)
            ELSE IF ~ document.present THEN Reject(404)
            ELSE IF document.user_id # u THEN Reject(403)
            ELSE /\ files' = files \ {FilePath(d), document.output_path}
                 /\ documents' = [documents EXCEPT ![d] = NoDocument]
                 /\ Return(200)
    /\ UNCHANGED <<request, editing, analysis>>

\* apply_accepted_changes of changes.py: its require_auth looks the user up
\* in the user table; the ownership test is commented out;
\* document.final_file_path is not a column of Document, so the commit
\* stores nothing; AIRedliningService.apply_accepted_changes saves its
\* output when it succeeds
ApplyAcceptedChanges ==
    /\ engine = "routes"
    /\ request = NoRequest
    /\ \E u \in HeaderUserIds, d \in DocumentIds, accepted_changes \in {"none", "some"},
          success \in BOOLEAN :
        LET document == documents[d]
            Return(code) == response' = Responded("apply-accepted", u, d, code, document, files)
            Reject(code) == Return(code) /\ files' = files
        IN  IF u \notin Users THEN Reject(404)
            ELSE IF accepted_changes = "none" THEN Reject(400)
            ELSE IF ~ document.present THEN Reject(404)
            ELSE IF success /\ FilePath(d) \in files
                 THEN files' = files \cup {FinalPath(d)} /\ Return(200)
            ELSE Reject(500)
    /\ UNCHANGED <<documents, request, editing, analysis>>

NextRoutes ==
    \/ ProcessDocument
    \/ ProcessDocumentReturn
    \/ DownloadDocument
    \/ GetDocument
    \/ DeleteDocument
    \/ ApplyAcceptedChanges

SpecRoutes == InitRoutes /\ [][NextRoutes]_vars

(***************************************************************************)
(* AIRedliningService._mock_analysis                                       *)
(***************************************************************************)

\* a TEXT_INSERT entry of mock_modifications: it has no current_text key
MockInsert(section, new_text) ==
    [Planned(section, <<>>, new_text) EXCEPT !.type = "TEXT_INSERT",
                                              !.current_kind = "missing"]

\* the first pattern of patterns that text contains, <<>> if none
FirstPatternIn(patterns, text) ==
    LET hits == {k \in 1..Len(patterns) : Contains(text, patterns[k])}
    IN IF hits = {} THEN <<>>
       ELSE patterns[CHOOSE k \in hits : \A h \in hits : k <= h]

\* the modification for the first company pattern of text: a pattern that
\* starts with For: keeps its wording around the name
MockCompany(patterns, section, text, firm_name) ==
    LET Go(pattern) ==
            IF pattern = <<>> THEN <<>>
            ELSE IF StartsWith(pattern, <<"F", "o", "r", ":">>)
            THEN <<Planned(section, pattern, Replace(pattern, <<"C", "o", "m", "p", "a", "n", "y">>, firm_name))>>
            ELSE <<Planned(section, pattern, <<"F", "o", "r", ":", " ">> \o firm_name)>>
    IN Go(FirstPatternIn(patterns, text))

\* the By: modification, unless the signer is in the document already
MockSigner(text, signer_name) ==
    IF Contains(text, <<"B", "y", ":">>) /\ ~ Contains(text, signer_name)
    THEN <<Planned("signatures", <<"B", "y", ":">>, <<"B", "y", ":", " ">> \o signer_name)>>
    ELSE <<>>

\* the modification for the first title pattern of text, unless the title
\* is in the document already
MockTitle(text, title) ==
    LET Go(pattern) ==
            IF pattern = <<>> \/ Contains(text, title) THEN <<>>
            ELSE <<Planned("signatures", pattern, <<"T", "i", "t", "l", "e", ":", " ">> \o title)>>
    IN Go(FirstPatternIn(<<<<"T", "i", "t", "l", "e", ":", " ", "\t", "_", "_", "_", "_", "_", "_", "_", "_", "_", "_", "_", "_", "_", "_", "_", "_", "_", "_", "_", "_", "_", "_", "_", "_", "_", "_", "_", "_", "_", "_", "_">>,
                           <<"T", "i", "t", "l", "e", ":", "\t", "_", "_", "_", "_", "_", "_", "_", "_", "_", "_", "_", "_", "_", "_", "_", "_", "_", "_", "_", "_", "_", "_", "_", "_", "_", "_", "_", "_", "_", "_", "_">>,
                           <<"T", "i", "t", "l", "e", ":", "_", "_", "_", "_", "_", "_", "_", "_", "_", "_", "_", "_", "_", "_", "_", "_", "_", "_", "_", "_", "_", "_", "_", "_", "_", "_", "_", "_", "_", "_", "_">>,
                           <<"T", "i", "t", "l", "e", ":">>, <<"T", "i", "t", "l", "e", ":", " ", "\t">>, <<"T", "i", "t", "l", "e", ":", "\t">>>>, text))

\* the block of _mock_analysis under "if firm_details and 'firm_name' in
\* firm_details" (fd: the normalized dict, <<>> for a key it lacks)
MockFirmDetails(text, fd) ==
    LET company == MockCompany(<<<<"C", "o", "m", "p", "a", "n", "y", " ", "(", "n", "a", "m", "e", " ", "t", "o", " ", "b", "e", " ", "p", "r", "o", "v", "i", "d", "e", "d", " ", "u", "p", "o", "n", " ", "e", "x", "e", "c", "u", "t", "i", "o", "n", ")">>,
                                 <<"F", "o", "r", ":", " ", "C", "o", "m", "p", "a", "n", "y", " ", "(", "n", "a", "m", "e", " ", "t", "o", " ", "b", "e", " ", "p", "r", "o", "v", "i", "d", "e", "d", " ", "u", "p", "o", "n", " ", "e", "x", "e", "c", "u", "t", "i", "o", "n", ")">>,
                                 <<"F", "o", "r", ":", " ", "C", "o", "m", "p", "a", "n", "y">>, <<"C", "o", "m", "p", "a", "n", "y">>>>,
                               "parties", text, fd.firm_name)
    IN IF fd.firm_name = <<>> THEN <<>>
       ELSE (IF company = <<>>
             THEN <<Planned("parties", <<"C", "o", "m", "p", "a", "n", "y">>, <<"F", "o", "r", ":", " ">> \o fd.firm_name)>>
             ELSE company)
            \o (IF fd.signatory_name # <<>> THEN MockSigner(text, fd.signatory_name) ELSE <<>>)
            \o (IF fd.title # <<>> THEN MockTitle(text, fd.title) ELSE <<>>)

\* the duration branch of the rule loop
MockDuration(text, rule) ==
    LET target_years == TargetYears(<<rule>>)
        n == IntToStr(target_years)
        target_years_simple == n \o <<" ", "y", "e", "a", "r", "s">>
        target_years_text ==
            IF target_years > 0 THEN n \o <<" ", "(">> \o n \o <<")", " ", "y", "e", "a", "r", "s">> ELSE target_years_simple
        year_patterns ==
            <<<<"f", "i", "v", "e", " ", "(", "5", ")", " ", "y", "e", "a", "r", "s">>, <<"5", " ", "y", "e", "a", "r", "s">>, <<"t", "h", "r", "e", "e", " ", "(", "3", ")", " ", "y", "e", "a", "r", "s">>, <<"3", " ", "y", "e", "a", "r", "s">>, <<"f", "o", "u", "r", " ", "(", "4", ")", " ", "y", "e", "a", "r", "s">>,
              <<"4", " ", "y", "e", "a", "r", "s">>, <<"t", "e", "n", " ", "(", "1", "0", ")", " ", "y", "e", "a", "r", "s">>, <<"1", "0", " ", "y", "e", "a", "r", "s">>, <<"s", "e", "v", "e", "n", " ", "(", "7", ")", " ", "y", "e", "a", "r", "s">>, <<"7", " ", "y", "e", "a", "r", "s">>,
              <<"t", "h", "r", "e", "e", " ", "y", "e", "a", "r", "s">>, <<"f", "i", "v", "e", " ", "y", "e", "a", "r", "s">>, <<"s", "e", "v", "e", "n", " ", "y", "e", "a", "r", "s">>, <<"t", "e", "n", " ", "y", "e", "a", "r", "s">>>>
        NewPattern(current_pattern) ==
            IF current_pattern \in {<<"5", " ", "y", "e", "a", "r", "s">>, <<"3", " ", "y", "e", "a", "r", "s">>, <<"4", " ", "y", "e", "a", "r", "s">>, <<"1", "0", " ", "y", "e", "a", "r", "s">>, <<"7", " ", "y", "e", "a", "r", "s">>}
            THEN target_years_simple ELSE target_years_text
        Go(current_pattern) ==
            IF current_pattern = <<>>
            THEN <<Planned("term", <<"t", "h", "r", "e", "e", " ", "y", "e", "a", "r", "s">>, target_years_text)>>
            ELSE IF current_pattern \in {Lower(target_years_text), Lower(target_years_simple)}
            THEN <<>>
            ELSE <<Planned("term", current_pattern, NewPattern(current_pattern))>>
    IN IF DocAlreadyHasTarget(text, target_years) THEN <<>>
       ELSE Go(FirstPatternIn(year_patterns, Lower(text)))

\* the firm / party / name branch of the rule loop
MockParties(text, fd) ==
    LET firm_name == IF fd.firm_name # <<>> THEN fd.firm_name ELSE <<"S", "a", "m", "p", "l", "e", " ", "C", "o", "m", "p", "a", "n", "y", " ", "L", "L", "C">>
        signer_name == IF fd.signatory_name # <<>> THEN fd.signatory_name ELSE <<"S", "a", "m", "p", "l", "e", " ", "S", "i", "g", "n", "e", "r">>
        signer_title == IF fd.title # <<>> THEN fd.title ELSE <<"A", "u", "t", "h", "o", "r", "i", "z", "e", "d", " ", "S", "i", "g", "n", "a", "t", "o", "r", "y">>
        Party(pattern) ==
            IF pattern = <<>> THEN <<>>
            ELSE IF pattern = <<"C", "o", "m", "p", "a", "n", "y", " ", "(", "n", "a", "m", "e", " ", "t", "o", " ", "b", "e", " ", "p", "r", "o", "v", "i", "d", "e", "d", " ", "u", "p", "o", "n", " ", "e", "x", "e", "c", "u", "t", "i", "o", "n", ")">>
            THEN <<Planned("parties", pattern, firm_name)>>
            ELSE <<Planned("parties", pattern, firm_name \o <<" ", "(", "R", "e", "c", "i", "p", "i", "e", "n", "t", ")">>)>>
        Placeholder(section, placeholder, value) ==
            IF Contains(text, placeholder) THEN <<Planned(section, placeholder, value)>>
            ELSE <<>>
    IN Party(FirstPatternIn(<<<<"C", "o", "m", "p", "a", "n", "y", " ", "(", "n", "a", "m", "e", " ", "t", "o", " ", "b", "e", " ", "p", "r", "o", "v", "i", "d", "e", "d", " ", "u", "p", "o", "n", " ", "e", "x", "e", "c", "u", "t", "i", "o", "n", ")">>,
                              <<"R", "e", "c", "i", "p", "i", "e", "n", "t">>, <<"R", "e", "c", "e", "i", "v", "i", "n", "g", " ", "P", "a", "r", "t", "y">>>>, text))
       \o Placeholder("parties", <<"[", "F", "I", "R", "M", "_", "N", "A", "M", "E", "]">>, firm_name)
       \o Placeholder("signatures", <<"[", "S", "I", "G", "N", "E", "R", "_", "N", "A", "M", "E", "]">>, signer_name)
       \o Placeholder("signatures", <<"[", "S", "I", "G", "N", "E", "R", "_", "T", "I", "T", "L", "E", "]">>, signer_title)

\* the governing / law branch of the rule loop
MockGoverningLaw(text) ==
    LET Go(pattern) ==
            IF pattern = <<>> THEN <<>>
            ELSE <<Planned("governing_law", pattern, Replace(pattern, <<"D", "e", "l", "a", "w", "a", "r", "e">>, <<"N", "e", "w", " ", "Y", "o", "r", "k">>))>>
    IN Go(FirstPatternIn(<<<<"S", "t", "a", "t", "e", " ", "o", "f", " ", "D", "e", "l", "a", "w", "a", "r", "e">>, <<"D", "e", "l", "a", "w", "a", "r", "e">>, <<"D", "e", "l", "a", "w", "a", "r", "e", " ", "c", "o", "u", "r", "t", "s">>>>, text))

\* the signature / block branch of the rule loop
MockSignatureBlock(text, fd) ==
    MockCompany(<<<<"F", "o", "r", ":", " ", "C", "o", "m", "p", "a", "n", "y", " ", "(", "n", "a", "m", "e", " ", "t", "o", " ", "b", "e", " ", "p", "r", "o", "v", "i", "d", "e", "d", " ", "u", "p", "o", "n", " ", "e", "x", "e", "c", "u", "t", "i", "o", "n", ")">>, <<"F", "o", "r", ":", " ", "C", "o", "m", "p", "a", "n", "y">>,
                  <<"C", "o", "m", "p", "a", "n", "y", " ", "(", "n", "a", "m", "e", " ", "t", "o", " ", "b", "e", " ", "p", "r", "o", "v", "i", "d", "e", "d", " ", "u", "p", "o", "n", " ", "e", "x", "e", "c", "u", "t", "i", "o", "n", ")">>, <<"C", "o", "m", "p", "a", "n", "y">>>>,
                "signatures", text,
                IF fd.firm_name # <<>> THEN fd.firm_name ELSE <<"S", "a", "m", "p", "l", "e", " ", "C", "o", "m", "p", "a", "n", "y", " ", "L", "L", "C">>)
    \o MockSigner(text, IF fd.signatory_name # <<>> THEN fd.signatory_name ELSE <<"S", "a", "m", "p", "l", "e", " ", "S", "i", "g", "n", "e", "r">>)
    \o MockTitle(text, IF fd.title # <<>> THEN fd.title ELSE <<"A", "u", "t", "h", "o", "r", "i", "z", "e", "d", " ", "S", "i", "g", "n", "a", "t", "o", "r", "y">>)

\* one iteration of "for rule in custom_rules": what the rule appends
MockRule(text, rule, fd) ==
    LET rule_name == Lower(rule.name)
        Named(words) == \E w \in words : Contains(rule_name, w)
    IN IF Named({<<"d", "u", "r", "a", "t", "i", "o", "n">>, <<"t", "e", "r", "m">>, <<"c", "o", "n", "f", "i", "d", "e", "n", "t", "i", "a", "l", "i", "t", "y">>}) THEN MockDuration(text, rule)
       ELSE IF Named({<<"l", "i", "a", "b", "i", "l", "i", "t", "y">>, <<"d", "a", "m", "a", "g", "e">>})
       THEN <<MockInsert("liability", 
                        <<"I", "n", " ", "n", "o", " ", "e", "v", "e", "n", "t", " ", "s", "h", "a", "l", "l", " ", "e", "i", "t", "h", "e", "r", " ", "p", "a", "r", "t", "y", " ", "b", "e", " ", "l", "i", "a", "b", "l", "e", " ", "f", "o", "r", " ", "a", "n", "y", " ", "i", "n", "d", "i", "r", "e", "c", "t", ",", " ", "i", "n", "c", "i", "d", "e", "n", "t", "a", "l", ",", " ", "s", "p", "e", "c", "i", "a", "l", ",", " ", "c", "o", "n", "s", "e", "q", "u", "e", "n", "t", "i", "a", "l", ",", " ", "o", "r", " ", "p", "u", "n", "i", "t", "i", "v", "e", " ", "d", "a", "m", "a", "g", "e", "s", " ", "a", "r", "i", "s", "i", "n", "g", " ", "o", "u", "t", " ", "o", "f", " ", "o", "r", " ", "r", "e", "l", "a", "t", "i", "n", "g", " ", "t", "o", " ", "t", "h", "i", "s", " ", "A", "g", "r", "e", "e", "m", "e", "n", "t", ".">>)>>
       ELSE IF Named({<<"f", "i", "r", "m">>, <<"p", "a", "r", "t", "y">>, <<"p", "a", "r", "t", "i", "e", "s">>, <<"n", "a", "m", "e">>}) THEN MockParties(text, fd)
       ELSE IF Named({<<"g", "o", "v", "e", "r", "n", "i", "n", "g">>, <<"l", "a", "w">>}) THEN MockGoverningLaw(text)
       ELSE IF Named({<<"s", "i", "g", "n", "a", "t", "u", "r", "e">>, <<"b", "l", "o", "c", "k">>}) THEN MockSignatureBlock(text, fd)
       ELSE <<>>

\* the loop that logs mod['current_text'] of every entry raises KeyError on
\* an entry without that key
RaisesOnLog(modifications) ==
    \E i \in 1..Len(modifications) : modifications[i].current_kind = "missing"

\* _mock_analysis as analyze_document returns it in mock mode: an exception
\* of _mock_analysis is caught by the except of analyze_document
MockAnalysis(text, rules, fd) ==
    LET found == MockFirmDetails(text, fd)
                 \o Concat([k \in 1..Len(rules) |-> MockRule(text, rules[k], fd)])
        mock_modifications ==
            IF found = <<>> /\ rules # <<>>
            THEN <<MockInsert("general",
                              <<"[", "M", "o", "d", "i", "f", "i", "c", "a", "t", "i", "o", "n", " ", "b", "a", "s", "e", "d", " ", "o", "n", " ", "r", "u", "l", "e", ":", " ">> \o rules[1].name \o <<"]">>)>>
            ELSE found
    IN IF RaisesOnLog(mock_modifications)
       THEN [success |-> FALSE, modifications |-> <<>>]
       ELSE [success |-> TRUE, modifications |-> mock_modifications]

\* number of custom rules of a call
MaxRules == 2

\* the rules analyze_document is called with in mock mode
MockRulePool ==
    {[name |-> <<"T", "e", "r", "m">>, instruction |-> <<"U", "s", "e", " ", "5", " ", "(", "5", ")", " ", "y", "e", "a", "r", "s">>],
     [name |-> <<"L", "i", "a", "b", "i", "l", "i", "t", "y", " ", "c", "a", "p">>, instruction |-> <<"C", "a", "p", " ", "d", "a", "m", "a", "g", "e", "s">>],
     [name |-> <<"G", "o", "v", "e", "r", "n", "i", "n", "g", " ", "l", "a", "w">>, instruction |-> <<"U", "s", "e", " ", "N", "e", "w", " ", "Y", "o", "r", "k">>],
     [name |-> <<"S", "i", "g", "n", "a", "t", "u", "r", "e", " ", "b", "l", "o", "c", "k">>, instruction |-> <<"F", "i", "l", "l", " ", "i", "n">>],
     [name |-> <<"F", "i", "r", "m">>, instruction |-> <<"F", "i", "l", "l", " ", "i", "n">>],
     [name |-> <<"N", "o", "t", "i", "c", "e", "s">>, instruction |-> <<"S", "h", "o", "r", "t", "e", "n">>]}

\* the document texts analyze_document is called on in mock mode
MockTexts ==
    DocumentTexts \cup {<<"l", "a", "w", "s", " ", "o", "f", " ", "t", "h", "e", " ", "S", "t", "a", "t", "e", " ", "o", "f", " ", "D", "e", "l", "a", "w", "a", "r", "e">>, <<"[", "F", "I", "R", "M", "_", "N", "A", "M", "E", "]", " ", "(", "t", "h", "e", " ", "R", "e", "c", "i", "p", "i", "e", "n", "t", ")">>,
                        <<"a", " ", "t", "e", "r", "m", " ", "o", "f", " ", "f", "i", "v", "e", " ", "(", "5", ")", " ", "y", "e", "a", "r", "s">>}

InitMock ==
    /\ engine = "mock"
    /\ doc0 = <<>>
    /\ doc = <<>>
    /\ prevDoc = <<>>
    /\ cells = <<>>
    /\ prevCells = <<>>
    /\ mods = <<>>
    /\ idx = 0
    /\ outcomes = <<>>
    /\ native = FALSE
    /\ sig = FALSE
    /\ applied = 0
    /\ phase = "call"
    /\ result = NoResult
    /\ document_text \in MockTexts
    /\ custom_rules \in SeqsUpTo(MockRulePool, MaxRules)
    /\ firm_details \in FirmDetailsGiven
    /\ ai_response = <<>>
    /\ flagged = {}
    /\ NoRoutes

\* analyze_document with self.client None
MockAnalyze ==
    /\ engine = "mock"
    /\ phase = "call"
    /\ LET Go(r) == /\ mods' = r.modifications
                    /\ result' = [NoResult EXCEPT !.success = r.success]
       IN Go(MockAnalysis(document_text, custom_rules, NormalizedFirmDetails(firm_details)))
    /\ phase' = "done"
    /\ UNCHANGED <<routes, engine, doc0, doc, cells, idx, prevDoc, prevCells, outcomes, native,
                   sig, applied, analysis>>

NextMock == MockAnalyze

SpecMock == InitMock /\ [][NextMock]_vars

(***************************************************************************)
(* Properties                                                              *)
(***************************************************************************)

\* the entry the latest loop iteration consumed
LastMod == mods[idx]

\* a loop iteration has just run and the entry point has not returned
JustStepped == phase = "apply" /\ idx >= 1

\* an accepted Replace change with a non-empty target and replacement
IsUsableReplace(c) ==
    /\ c.type = "TEXT_REPLACE"
    /\ c.current_kind = "str"
    /\ c.current_text # <<>>
    /\ c.new_text # <<>>

NumApplied == Cardinality({i \in 1..Len(outcomes) : outcomes[i] = "applied"})

\* an element that shows text as removed / as added
IsDeletion(e) == e.kind = "del" \/ (e.kind = "run" /\ e.strike)
IsInsertion(e) == e.kind = "ins" \/ (e.kind = "run" /\ e.underline)

TextOf(p, from, to) == Concat([i \in 1..(to - from + 1) |-> p[from + i - 1].text])

\* after is before with the first occurrence of old rewritten as
\* prefix, struck old, underlined new, suffix
IsRedlineOf(before, after, old, new) ==
    LET text == ParaText(before)
        i == Find(text, old)
        pre == Slice(text, 1, i - 1)
        suf == Slice(text, i + Len(old), Len(text))
    IN \E j \in 1..(Len(after) - 1) :
          /\ after[j].kind = "run" /\ after[j].strike /\ after[j].text = old
          /\ after[j + 1].kind = "run" /\ after[j + 1].underline
          /\ after[j + 1].text = new
          /\ TextOf(after, 1, j - 1) = pre
          /\ TextOf(after, j + 2, Len(after)) = suf

\* C1: in the review path, an accepted Replace change with non-empty target
\* and replacement whose target occurs verbatim in a paragraph is applied and
\* counted, and the first paragraph containing the target becomes prefix +
\* struck-through target + underlined replacement + suffix.
C1_VerbatimTargetIsRedlined ==
    /\ (engine = "review" /\ JustStepped) =>
          LET c == LastMod
              k == FirstContaining(prevDoc, 1, c.current_text)
          IN (c.status = "accepted" /\ IsUsableReplace(c) /\ k # 0) =>
                /\ outcomes[idx] = "applied"
                /\ applied = NumApplied
                /\ IsRedlineOf(prevDoc[k], doc[k], c.current_text, c.new_text)
    /\ (engine = "review" /\ phase = "done" /\ result.success) =>
          result.applied = NumApplied

\* C1 witness: a change was applied to the second paragraph, whose text goes
\* on after the target
C1_Witness ==
    /\ engine = "review" /\ JustStepped
    /\ LastMod.status = "accepted" /\ IsUsableReplace(LastMod)
    /\ FirstContaining(prevDoc, 1, LastMod.current_text) = 2
    /\ outcomes[idx] = "applied"
    /\ Len(doc[2]) = 3

\* C2: a Replace change that was applied, applied again to the resulting
\* document, is reported as not found and leaves the document unchanged.
C2_SecondApplicationNotFound ==
    (engine = "review" /\ JustStepped /\ idx >= 2
        /\ mods[idx] = mods[idx - 1] /\ outcomes[idx - 1] = "applied") =>
        (outcomes[idx] = "notfound" /\ doc = prevDoc)

\* C3: after any sequence of applied Replace changes, the old text of every
\* applied change is still struck through and its new text still marked as
\* added.
C3_AppliedChangesStayMarked ==
    engine = "review" =>
        \A i \in 1..idx :
            outcomes[i] = "applied" =>
                \E k \in 1..Len(doc) :
                    /\ \E j \in 1..Len(doc[k]) :
                          /\ IsDeletion(doc[k][j])
                          /\ NormalizeWs(doc[k][j].text) = NormalizeWs(mods[i].current_text)
                    /\ \E j \in 1..Len(doc[k]) :
                          /\ IsInsertion(doc[k][j])
                          /\ doc[k][j].text = mods[i].new_text

\* the outcomes and paragraph texts of the two batch loops on the same input
SameAsChunked(d, ms, docNow, outcomesNow, nat) ==
    LET c == DPRun(d, ms, TRUE, nat) IN
    /\ outcomesNow = c.outcomes
    /\ Len(docNow) = Len(c.doc)
    /\ \A k \in 1..Len(docNow) : VisibleText(docNow[k]) = VisibleText(c.doc[k])

\* C4: _apply_modifications and _apply_modifications_chunked make the same
\* modifications succeed and leave the same paragraph text.
C4_ChunkedEqualsUnchunked ==
    (engine = "batch" /\ phase = "apply") =>
        SameAsChunked(doc0, SubSeq(mods, 1, idx), doc, outcomes, native)

\* the variants the batch locator derives from the target itself
DerivedVariants(old) ==
    { Replace(old, S_5, S_five5), Replace(old, S_five5, S_5),
      Replace(old, S_years, S_year), Replace(old, S_year, S_years),
      Replace(old, S_For, <<>>), Replace(old, S_CompanyName, S_Company),
      S_For \o old, old \o S_NameSuffix, S_For \o old \o S_NameSuffix,
      Replace(old, S_Space, <<>>), Replace(old, S_Colon, <<>>) }

\* old occurs in no paragraph of d: not exactly, not after whitespace
\* normalization, not as a variant derived from it, not case-insensitively
MatchesNowhere(d, old) ==
    \A k \in 1..Len(d) :
        LET text == ParaText(d[k]) IN
        /\ ~Contains(text, old)
        /\ ~Contains(NormalizeWs(text), NormalizeWs(old))
        /\ ~Contains(Lower(text), Lower(old))
        /\ ~Contains(Lower(NormalizeWs(text)), Lower(NormalizeWs(old)))
        /\ \A v \in DerivedVariants(old) : v # <<>> => ~Contains(text, v)

\* C5: a Replace modification whose target occurs in no paragraph under any
\* strategy changes no paragraph.
C5_UnmatchedTargetChangesNothing ==
    (engine = "batch" /\ JustStepped /\ IsUsableReplace(LastMod)
        /\ MatchesNowhere(prevDoc, LastMod.current_text)) =>
        doc = prevDoc

\* C6: in the batch path every successful Replace emits a deletion carrying
\* the original text followed by an insertion carrying the replacement.
C6_BatchReplaceEmitsDeletionAndInsertion ==
    (engine = "batch" /\ JustStepped /\ IsUsableReplace(LastMod)
        /\ outcomes[idx] = "applied"
        /\ FirstContaining(prevDoc, 1, LastMod.current_text) # 0) =>
        LET k == FirstContaining(prevDoc, 1, LastMod.current_text) IN
        \E j \in 1..(Len(doc[k]) - 1) :
            /\ IsDeletion(doc[k][j]) /\ doc[k][j].text = LastMod.current_text
            /\ IsInsertion(doc[k][j + 1]) /\ doc[k][j + 1].text = LastMod.new_text

\* C7: a successful Replace loses no text: the paragraph shows prefix +
\* target + replacement + suffix, split at the first occurrence of the target.
C7_ReplaceLosesNoText ==
    (JustStepped /\ IsUsableReplace(LastMod) /\ outcomes[idx] = "applied"
        /\ FirstContaining(prevDoc, 1, LastMod.current_text) # 0) =>
        LET old == LastMod.current_text
            k == FirstContaining(prevDoc, 1, old)
            text == ParaText(prevDoc[k])
            i == Find(text, old)
        IN VisibleText(doc[k]) =
              Slice(text, 1, i - 1) \o old \o LastMod.new_text
                  \o Slice(text, i + Len(old), Len(text))

\* the formatting each shown character of a paragraph carries
FormatOf(e) ==
    [bold |-> e.bold, italic |-> e.italic, underline |-> e.underline,
     strike |-> e.strike, color |-> e.color]
CharFormats(p) ==
    Concat([i \in 1..Len(p) |-> [n \in 1..Len(p[i].text) |-> FormatOf(p[i])]])

\* C8: a Replace leaves the formatting of the text before and after the
\* matched span as it was.
C8_FormattingOutsideSpanKept ==
    (engine = "review" /\ JustStepped /\ IsUsableReplace(LastMod)
        /\ outcomes[idx] = "applied"
        /\ FirstContaining(prevDoc, 1, LastMod.current_text) # 0) =>
        LET old == LastMod.current_text
            k == FirstContaining(prevDoc, 1, old)
            i == Find(ParaText(prevDoc[k]), old)
            before == CharFormats(prevDoc[k])
            after == CharFormats(doc[k])
            nsuf == Len(before) - (i + Len(old) - 1)
        IN /\ Len(after) >= i - 1 + nsuf
           /\ \A n \in 1..(i - 1) : after[n] = before[n]
           /\ \A n \in 1..nsuf :
                 after[Len(after) - n + 1] = before[Len(before) - n + 1]

\* C9: no single modification's failure aborts the batch: every entry of the
\* list is attempted and the entry point returns success with an output path.
C9_FailureNeverAbortsBatch ==
    phase = "done" => (result.success /\ result.output /\ idx = Len(mods))

\* C10: when the target differs from the paragraph text only in whitespace,
\* the change is applied and the struck-through text is the paragraph's own
\* substring.
C10_WhitespaceVariantApplied ==
    (engine = "review" /\ JustStepped /\ LastMod.status = "accepted"
        /\ IsUsableReplace(LastMod)
        /\ FirstContaining(prevDoc, 1, LastMod.current_text) = 0
        /\ (\E k \in 1..Len(prevDoc) :
              Contains(NormalizeWs(ParaText(prevDoc[k])),
                       NormalizeWs(LastMod.current_text)))) =>
        /\ outcomes[idx] = "applied"
        /\ \E k \in 1..Len(doc) : \E j \in 1..Len(doc[k]) :
              /\ doc[k] # prevDoc[k]
              /\ IsDeletion(doc[k][j])
              /\ Contains(ParaText(prevDoc[k]), doc[k][j].text)
              /\ NormalizeWs(doc[k][j].text) = NormalizeWs(LastMod.current_text)

\* the text of a paragraph that is not shown as removed
KeptText(p) ==
    Concat([i \in 1..Len(p) |-> IF IsDeletion(p[i]) THEN <<>> ELSE p[i].text])

\* after comes from before by taking out a substring that equals old up to
\* whitespace and putting new in its place
ExcisedMatches(before, after, old, new) ==
    LET text == ParaText(before)
        kept == KeptText(after)
    IN \E i \in 1..Len(text) : \E j \in i..Len(text) :
          /\ NormalizeWs(Slice(text, i, j)) = NormalizeWs(old)
          /\ kept = Slice(text, 1, i - 1) \o new \o Slice(text, j + 1, Len(text))

\* no paragraph holds old verbatim, one holds it up to whitespace and case
OnlyNormalizedMatch(d, old) ==
    /\ FirstContaining(d, 1, old) = 0
    /\ \E k \in 1..Len(d) :
          Contains(Lower(NormalizeWs(ParaText(d[k]))), Lower(NormalizeWs(old)))

\* C11: when a Replace succeeds through the whitespace-normalized strategy,
\* the text taken out of the paragraph equals the target up to whitespace.
C11_NormalizedMatchExcisesTarget ==
    (engine = "batch" /\ JustStepped /\ IsUsableReplace(LastMod)
        /\ outcomes[idx] = "applied"
        /\ OnlyNormalizedMatch(prevDoc, LastMod.current_text)) =>
        \E k \in 1..Len(doc) :
            /\ doc[k] # prevDoc[k]
            /\ ExcisedMatches(prevDoc[k], doc[k], LastMod.current_text, LastMod.new_text)

\* all paragraphs of the document in document order, before and after the
\* latest loop iteration
AllBefore == prevDoc \o prevCells
AllNow == doc \o cells

\* C12: strategy precedence comes before paragraph order: a paragraph that
\* holds the target verbatim is chosen over an earlier paragraph that matches
\* only after whitespace normalization.
C12_ExactMatchBeatsEarlierParagraph ==
    (engine = "accepted" /\ JustStepped /\ IsUsableReplace(LastMod)) =>
        LET old == LastMod.current_text
            k == FirstContaining(AllBefore, 1, old)
        IN (/\ k > 1
            /\ \E j \in 1..(k - 1) :
                  Contains(NormalizeWs(ParaText(AllBefore[j])), NormalizeWs(old))) =>
               /\ outcomes[idx] = "applied"
               /\ AllNow[k] # AllBefore[k]
               /\ \A j \in 1..Len(AllNow) : j # k => AllNow[j] = AllBefore[j]

\* C13: a change whose target occurs verbatim in a body or table-cell
\* paragraph is located and applied to the first such paragraph.
C13_TableCellParagraphsSearched ==
    (engine = "review" /\ JustStepped /\ LastMod.status = "accepted"
        /\ IsUsableReplace(LastMod)) =>
        LET k == FirstContaining(AllBefore, 1, LastMod.current_text) IN
        k # 0 => (outcomes[idx] = "applied" /\ AllNow[k] # AllBefore[k])

\* analyze_document has returned its list (mods)
Returned == engine = "analyze" /\ phase = "done"

\* every entry of the planner's list has both texts as str
WellFormed(entries) ==
    \A k \in 1..Len(entries) :
        entries[k].current_kind = "str" /\ entries[k].new_kind = "str"

\* the word Company occurs in text, and only within (the "Company")
OnlyInDefiningPhrase(text) ==
    /\ Contains(text, <<"C", "o", "m", "p", "a", "n", "y">>)
    /\ ~ Contains(Replace(text, <<"(", "t", "h", "e", " ", "\"", "C", "o", "m", "p", "a", "n", "y", "\"", ")">>, <<>>), <<"C", "o", "m", "p", "a", "n", "y">>)

\* C14: when the only occurrence of Company in the document is inside the
\* defining phrase (the "Company"), the returned list holds no modification
\* whose target is Company; a planner modification whose target is the
\* label For: Company is in the returned list.
C14_CompanyInDefinitionDropped ==
    (Returned /\ WellFormed(ai_response)) =>
        /\ OnlyInDefiningPhrase(document_text) =>
              ~ \E i \in 1..Len(mods) : Strip(CurrentOf(mods[i])) = <<"C", "o", "m", "p", "a", "n", "y">>
        /\ \A k \in 1..Len(ai_response) :
              ai_response[k].current_text = <<"F", "o", "r", ":", " ", "C", "o", "m", "p", "a", "n", "y">> =>
                  \E i \in 1..Len(mods) : mods[i].origin = k

\* C15: when the document already holds the target duration, as a numeral or
\* spelled out, the returned list holds no modification whose replacement
\* states that duration.
C15_NoDuplicateOfTargetDuration ==
    (Returned /\ WellFormed(ai_response)
        /\ DocAlreadyHasTarget(document_text, TargetYears(custom_rules))) =>
        \A i \in 1..Len(mods) :
            ~ DocAlreadyHasTarget(NewOf(mods[i]), TargetYears(custom_rules))

\* s holds a calendar date: a month name, a day, a comma and a year
HoldsDate(s) ==
    \E month \in {<<"J", "a", "n", "u", "a", "r", "y">>, <<"F", "e", "b", "r", "u", "a", "r", "y">>, <<"M", "a", "r", "c", "h">>, <<"A", "p", "r", "i", "l">>, <<"M", "a", "y">>, <<"J", "u", "n", "e">>, <<"J", "u", "l", "y">>,
                  <<"A", "u", "g", "u", "s", "t">>, <<"S", "e", "p", "t", "e", "m", "b", "e", "r">>, <<"O", "c", "t", "o", "b", "e", "r">>, <<"N", "o", "v", "e", "m", "b", "e", "r">>, <<"D", "e", "c", "e", "m", "b", "e", "r">>} :
        ReFindAll(<<Lit(month), Lit(<<" ">>), Rep("digit", <<>>, 1, 2), Lit(<<",", " ">>),
                    Rep("digit", <<>>, 4, 4)>>, s, 1, FALSE) # <<>>

\* t is a short date placeholder (a blank or a bracketed DATE to fill in), or
\* starts with a date label
IsDateField(t) ==
    \/ /\ Len(Strip(t)) < 25
       /\ \E k \in 1..Len(FlexibleDatePatterns) :
             ReFindAll(FlexibleDatePatterns[k].pat, t, 1, TRUE) # <<>>
    \/ \E label \in {<<"D", "a", "t", "e", ":">>, <<"D", "a", "t", "e", "d", ":">>, <<"D", "A", "T", "E", ":">>, <<"D", "A", "T", "E", "D", ":">>} : StartsWith(Strip(t), label)

\* C16: every modification of the returned list whose replacement holds a
\* calendar date has a date placeholder or a date-labelled field as target.
C16_DatesOnlyOntoDateFields ==
    (Returned /\ WellFormed(ai_response)) =>
        \A i \in 1..Len(mods) :
            HoldsDate(NewOf(mods[i])) => IsDateField(CurrentOf(mods[i]))

\* C17: a Replace modification of the planner whose target is a bare label
\* By:, Title: or Date:, in a document that has the label followed by
\* whitespace and underscores, is returned with the label and its whole
\* run of underscores as target, with or without firm details.
C17_BareLabelExpanded ==
    (Returned /\ WellFormed(ai_response)) =>
        \A k \in 1..Len(ai_response) : \A label \in {<<"B", "y", ":">>, <<"T", "i", "t", "l", "e", ":">>, <<"D", "a", "t", "e", ":">>} :
            (/\ ai_response[k].type = "TEXT_REPLACE"
             /\ Strip(ai_response[k].current_text) = label
             /\ FirstLabelBlank(label, document_text) # <<>>) =>
                \A i \in 1..Len(mods) :
                    mods[i].origin = k =>
                        mods[i].current_text = FirstLabelBlank(label, document_text)

\* the known fields: the text that marks a target as addressing the field
\* (every part of it occurs in the target) and the firm detail that fills it
KnownFields(text, details) ==
    {[parts |-> {<<"D", "e", "a", "r", " ", "N", "A", "M", "E", ":">>}, value |-> details.signerName,
      present |-> Contains(text, <<"D", "e", "a", "r", " ", "N", "A", "M", "E", ":">>)],
     [parts |-> {<<"B", "y", ":">>}, value |-> details.signerName,
      present |-> FirstLabelBlank(<<"B", "y", ":">>, text) # <<>>],
     [parts |-> {<<"T", "i", "t", "l", "e", ":">>}, value |-> details.signerTitle,
      present |-> FirstLabelBlank(<<"T", "i", "t", "l", "e", ":">>, text) # <<>>],
     [parts |-> {<<"F", "o", "r", ":">>, <<"C", "o", "m", "p", "a", "n", "y">>}, value |-> details.name,
      present |-> \/ Contains(text, <<"F", "o", "r", ":", " ", "C", "o", "m", "p", "a", "n", "y">>)
                  \/ Contains(text, <<"F", "o", "r", ":", "\t", "C", "o", "m", "p", "a", "n", "y">>)
                  \/ Contains(text, <<"F", "o", "r", ":", " ", "\t", "C", "o", "m", "p", "a", "n", "y">>)]}

\* the positions of list whose modification addresses field and was written
\* by the planner (planned) or by analyze_document (not planned)
Addressing(list, field, planned) ==
    {i \in 1..Len(list) :
        /\ (list[i].origin # 0) = planned
        /\ \A part \in field.parts : Contains(CurrentOf(list[i]), part)}

\* C18: for each known field that is present in the document and whose firm
\* detail was passed, the returned list holds exactly one added modification
\* for the field when no planner modification in it addresses the field, and
\* no added one when a planner modification does.
C18_OneModificationPerKnownField ==
    (Returned /\ WellFormed(ai_response)) =>
        \A field \in KnownFields(document_text, firm_details) :
            (field.present /\ field.value # <<>>) =>
                Cardinality(Addressing(mods, field, FALSE)) =
                    IF Addressing(mods, field, TRUE) = {} THEN 1 ELSE 0

\* the origins of the planner's modifications in list
Origins(list) == {list[i].origin : i \in 1..Len(list)} \ {0}

\* C19: in the returned list the planner's modifications stand in the order
\* the planner gave them, and of the modifications the validator received
\* from the parser exactly those it flagged as invalid are missing.
C19_ValidatorKeepsOrderAndRemovesFlagged ==
    Returned =>
        /\ \A i \in 1..Len(mods) : \A j \in 1..Len(mods) :
              (i < j /\ mods[i].origin # 0 /\ mods[j].origin # 0) =>
                  mods[i].origin < mods[j].origin
        /\ Origins(ParseAIResponse(ai_response)) \ Origins(mods) = flagged
        /\ flagged \cap Origins(mods) = {}

\* a returned list from which the validator removed the first of two planner
\* modifications and kept the second
C19_Witness ==
    /\ Returned
    /\ Len(ai_response) = 2
    /\ flagged = {1}
    /\ Origins(mods) = {2}

\* entry has both of its texts as str
IsWellFormed(entry) == entry.current_kind = "str" /\ entry.new_kind = "str"

\* C20: analyze_document returns success; no planner entry whose
\* current_text or new_text is missing or null is in the returned list; and
\* every other planner entry is in the returned list unless the validator
\* flagged it.
C20_MalformedEntryDroppedAlone ==
    Returned =>
        /\ result.success
        /\ \A i \in 1..Len(mods) :
              mods[i].origin # 0 => IsWellFormed(ai_response[mods[i].origin])
        /\ \A k \in 1..Len(ai_response) :
              (IsWellFormed(ai_response[k]) /\ k \notin flagged) =>
                  \E i \in 1..Len(mods) : mods[i].origin = k


\* a Replace entry whose target or replacement is the empty string
HasEmptyOperand(m) ==
    /\ m.type = "TEXT_REPLACE"
    /\ m.current_kind = "str"
    /\ m.current_text = <<>> \/ m.new_text = <<>>

\* C21: a Replace modification whose target or replacement is the empty
\* string is skipped: it is not applied and the step leaves every paragraph
\* of the document as it was
C21_EmptyOperandsSkipped ==
    JustStepped /\ HasEmptyOperand(LastMod)
        => doc = prevDoc /\ outcomes[idx] # "applied"

\* C22: the count process_document returns as modifications_applied equals
\* the number of modifications that were located in the document and
\* applied; a modification that was not found is not counted
C22_AppliedCountIsWhatWasApplied ==
    engine \in {"batch", "chunked"} /\ phase = "done"
        => result.applied = NumApplied

\* the elements of p that show text as added
Insertions(p) == SelectSeq(p, IsInsertion)

\* C23: a Delete modification touches only the first paragraph that holds
\* its target, and there only the matched span: the paragraph still shows
\* all of its text, the span is marked as a deletion, nothing is marked as
\* an insertion, and every other paragraph is as it was
C23_DeleteMarksOnlyMatchedSpan ==
    LET target == LastMod.current_text
        i == FirstContaining(prevDoc, 1, target)
    IN  /\ JustStepped
        /\ LastMod.type = "TEXT_DELETE"
        /\ LastMod.current_kind = "str"
        /\ target # <<>>
        /\ i # 0
        => /\ Len(doc) = Len(prevDoc)
           /\ \A k \in 1..Len(doc) : k # i => doc[k] = prevDoc[k]
           /\ VisibleText(doc[i]) = VisibleText(prevDoc[i])
           /\ \E j \in 1..Len(doc[i]) :
                    IsDeletion(doc[i][j]) /\ doc[i][j].text = target
           /\ \A j \in 1..Len(doc[i]) :
                    IsDeletion(doc[i][j]) /\ doc[i][j] \notin {prevDoc[i][k] : k \in 1..Len(prevDoc[i])}
                        => doc[i][j].text = target
           /\ Insertions(doc[i]) = Insertions(prevDoc[i])

Rewritten(before, after) ==
    {k \in 1..Len(after) : k > Len(before) \/ after[k] # before[k]}

Pictures(d) ==
    UNION {{<<k, j>> : j \in {e \in 1..Len(d[k]) : d[k][e].pic}} : k \in 1..Len(d)}

\* p begins with a signature label and holds blanks to sign on
IsSignatureAnchor(p) ==
    /\ \/ StartsWith(Lower(Strip(VisibleText(p))), S_signed)
       \/ StartsWith(Lower(Strip(VisibleText(p))), S_by)
    /\ Contains(VisibleText(p), S_Underscore)

\* the first signature anchor of d, 0 if it has none
FirstAnchor(d) ==
    LET First(hits) ==
            IF hits = {} THEN 0 ELSE CHOOSE k \in hits : \A h \in hits : k <= h
    IN First({k \in 1..Len(d) : IsSignatureAnchor(d[k])})

\* C26: when process_document is given a signature, the returned document
\* holds the image exactly once; if a paragraph begins with a signature label
\* and holds blanks, the image stands in the first such paragraph right
\* after its last run of underscores; otherwise it is appended at the end
\* of the document
C26_SignatureAfterLastBlanks ==
    engine \in {"batch", "chunked"} /\ phase = "done" /\ sig
        => /\ Cardinality(Pictures(doc)) = 1
           /\ \A at \in Pictures(doc) :
                 LET p == doc[at[1]]
                     before == TextOf(p, 1, at[2] - 1)
                     after == TextOf(p, at[2], Len(p))
                 IN IF FirstAnchor(doc) # 0
                    THEN /\ at[1] = FirstAnchor(doc)
                         /\ before # <<>>
                         /\ before[Len(before)] = "_"
                         /\ ~ Contains(after, S_Underscore)
                    ELSE at[1] = Len(doc) /\ at[2] = Len(p)

\* the entries among the first n of the list whose status is 'accepted'
Accepted(n) == {i \in 1..n : mods[i].status = "accepted"}

\* C27: AIRedliningService.apply_accepted_changes applies only changes whose
\* status is 'accepted': a step over a pending or rejected change leaves
\* the body and the table cells as they were, no such change is ever counted
\* or recorded as applied, and changes_applied never exceeds the number of
\* accepted changes
C27_OnlyAcceptedChangesApplied ==
    engine = "review"
        => /\ JustStepped /\ LastMod.status # "accepted"
                => doc = prevDoc /\ cells = prevCells
           /\ \A i \in 1..Len(outcomes) :
                outcomes[i] = "applied" => mods[i].status = "accepted"
           /\ applied <= Cardinality(Accepted(idx))
           /\ phase = "done" /\ result.success
                => result.applied <= Cardinality(Accepted(Len(mods)))

\* after an accepted change was applied, a pending change whose target
\* stands in the document has been passed over
C27_Witness ==
    /\ engine = "review"
    /\ JustStepped
    /\ idx = 2
    /\ outcomes[1] = "applied"
    /\ LastMod.status = "pending"
    /\ LastMod.current_kind = "str"
    /\ FirstContaining(prevDoc, 1, LastMod.current_text) # 0
    /\ doc = prevDoc

\* process_document has answered a call that was past the existence and
\* ownership checks
ProcessAnswered ==
    /\ engine = "routes"
    /\ request = NoRequest
    /\ response.route = "process"
    /\ response.code \notin {401, 403, 404}

\* C28: every process_document call that passes the existence and ownership
\* checks sets the status 'processing', and when it returns the document is
\* 'completed' with its output_path set or 'error' with its error_message
\* set; no call returns with the document left 'processing' or untouched
C28_ProcessEndsCompletedOrError ==
    /\ \A d \in DocumentIds :
          documents[d].present /\ documents[d].status = "processing"
              => request.route = "process" /\ request.document_id = d
    /\ ProcessAnswered =>
          LET document == documents[response.document_id] IN
          \/ document.status = "completed" /\ document.output_path # ""
          \/ document.status = "error" /\ document.error_message # ""

\* a route has answered a well-formed request of an authenticated user
\* about a document that belongs to another user
AnsweredNonOwner ==
    /\ engine = "routes"
    /\ request = NoRequest
    /\ response.route # "none"
    /\ response.code # 400
    /\ response.user_id \in Users
    /\ response.record.present
    /\ response.record.user_id # response.user_id

\* C29: a request of an authenticated user about a document another user
\* owns (process, get, download, delete, apply-accepted) is answered with
\* 403, leaves the document's row as it was and produces no file
C29_NonOwnerRejectedWithoutEffect ==
    AnsweredNonOwner
        => /\ response.code = 403
           /\ documents[response.document_id] = response.record
           /\ files = response.files

\* analyze_document has returned in mock mode from a call with custom rules
MockReturned == engine = "mock" /\ phase = "done" /\ custom_rules # <<>>

\* C30: in mock mode analyze_document, called with at least one custom rule,
\* returns success with at least one modification, also when the rules
\* yield a TEXT_INSERT (a liability rule, or the generic modification made
\* from the first rule when no rule found a pattern)
C30_MockAlwaysReturnsAModification ==
    MockReturned => result.success /\ Len(mods) >= 1

=============================================================================
